---- MODULE Spec2Model ----
(***************************************************************************)
(* A model of the request-execution engine of @vorthain/vortex:            *)
(* RequestBuilder (configuration cascade, retry function, error pipeline,  *)
(* simple and stale-while-revalidate cache strategies, the process-wide    *)
(* in-flight registry and its sweep timer) and SimpleCache.                *)
(*                                                                         *)
(* Time is counted in minutes: the sweep interval (60000 ms) is one unit,  *)
(* maxInflightAge (5 * 60 * 1000 ms) is five units and the default cache   *)
(* ttl (60000 ms) is one unit.                                             *)
(***************************************************************************)
EXTENDS Integers, Sequences, FiniteSets, TLC

VARIABLES
    client,      \* the Vortex client: the config its constructor was given and what the constructor and the last lookup of an endpoint did
    levels,      \* the four configuration levels: client, endpoint, method, request
    icptPolicy,  \* behaviour of the configured errorInterceptor ("absent" if none)
    cacheKind,   \* "simple": the built-in SimpleCache; "faulty": a custom instance whose get may throw
    transport,   \* how the transport is called: "native" (fetch, AbortSignal.any), "manual" (fetch, timeout controller), "xhr"
    now,         \* Date.now()
    cache,       \* SimpleCache.cache: entries in insertion order
    registry,    \* RequestBuilder.inflightRequests: key -> [p, ts]
    sweepOn,     \* RequestBuilder.cleanupInterval !== null
    req,         \* one record per RequestBuilder instance
    hist,        \* history: stored - per key, the value last set and still in force, and the end of its ttl
    lastOp       \* the last direct call on the SimpleCache and what it returned

vars == <<client, levels, icptPolicy, cacheKind, transport, now, cache, registry, sweepOn, req, hist, lastOp>>

(***************************************************************************)
(* Bounds of the model.                                                    *)
(***************************************************************************)
NumReq == 2          \* request builders
MaxTime == 7         \* the clock stops here when the registry is in use (entries age for MaxInflightAge)
MaxCacheTime == 4    \* the clock stops here when only cache ttls are measured
MaxRetryCalls == 3   \* retry() calls an unconstrained interceptor makes in one send()
NumKeys == 1         \* distinct request fingerprints
NumCacheKeys == 2    \* keys used in direct calls on the cache
MaxCancels == 2      \* calls of cancel() on one builder
MaxBuilderCalls == 2 \* calls of pathParams(), search() and settings() on one builder

(***************************************************************************)
(* Program constants.                                                      *)
(***************************************************************************)
DefaultMaxRetries == 10
DefaultTtl == 1
DefaultTimeout == 30000
MaxInflightAge == 5

Reqs == 1..NumReq
Keys == 1..NumKeys
CacheKeys == 1..NumCacheKeys
LevelNames == <<"client", "endpoint", "method", "request">>
Unset == -1

(***************************************************************************)
(* Values, errors and results.  A mapper written by the user is opaque;    *)
(* a stage that returns a value is modelled by the mark it leaves on the   *)
(* value's trail, so that "was mapped, by which stages, in which order"    *)
(* can be read off a value.                                                *)
(***************************************************************************)
Null == [v |-> "null", trail |-> <<>>]
Val(d) == [v |-> d, trail |-> <<>>]
\* the eight kinds of VortexError.TYPES
VortexKinds == {"HTTP", "NETWORK", "ABORT", "CONFIG", "TIMEOUT", "PARSE", "CACHE", "VALIDATION"}
NoErr == [kind |-> "none", at |-> -1, msg |-> "", trail |-> <<>>]
Err(k, c) == [kind |-> k, at |-> c, msg |-> "", trail |-> <<>>]
\* the error cancel(message) aborts the controller with
AbortErr(m) == [kind |-> "ABORT", at |-> -1, msg |-> m, trail |-> <<>>]

NoRes == [tag |-> "none", val |-> Null, err |-> NoErr]
UndefRes == [tag |-> "undef", val |-> Null, err |-> NoErr]
ValRes(v) == [tag |-> "val", val |-> v, err |-> NoErr]
ErrRes(e) == [tag |-> "err", val |-> Null, err |-> e]

(***************************************************************************)
(* Configuration levels and _buildFinalConfig.                             *)
(***************************************************************************)
NoCacheCfg == [enabled |-> Unset, strategy |-> "unset", ttl |-> Unset, instance |-> "unset"]

HeaderNames == {"A", "B"}
NoHeaders == [h \in HeaderNames |-> "unset"]

EmptyLevel ==
    [maxRetries |-> Unset, cache |-> NoCacheCfg,
     timeout |-> Unset, validateStatus |-> "unset", redirect |-> "unset", headers |-> NoHeaders,
     errorMapper |-> <<>>, responseMapper |-> <<>>,
     inheritMappers |-> TRUE, disableMappers |-> FALSE,
     disableResponseMapper |-> FALSE, disableErrorMapper |-> FALSE,
     path |-> <<>>, requestInterceptor |-> "absent", responseInterceptor |-> "absent"]

EmptyLevels == [n \in 1..4 |-> EmptyLevel]

\* a level has a cache block
HasCacheBlock(level) == level.cache /= NoCacheCfg

\* Vortex._normalizeConfig, as far as the levels go: the client's cache block
\* gets a new SimpleCache when it names no instance, and every method-level
\* cache block that names no instance gets the client's
NormalizeConfig(lv) ==
    LET clientInstance == IF lv[1].cache.instance = "unset" THEN "default" ELSE lv[1].cache.instance
    IN [n \in 1..4 |->
           IF n = 1 THEN [lv[n] EXCEPT !.cache.instance = clientInstance]
           ELSE IF n = 3 /\ HasCacheBlock(lv[n]) /\ lv[n].cache.instance = "unset"
           THEN [lv[n] EXCEPT !.cache.instance = clientInstance]
           ELSE lv[n]]

\* this.clientConfig ... this.requestConfig as the builder sees them: all null after _cleanup
SafeLevels(live) == IF live THEN NormalizeConfig(levels) ELSE EmptyLevels

\* JavaScript truthiness of a maxRetries setting
Truthy(n) == n /= Unset /\ n /= 0

CascadeMaxRetries(lv) ==
    IF Truthy(lv[4].maxRetries) THEN lv[4].maxRetries
    ELSE IF Truthy(lv[3].maxRetries) THEN lv[3].maxRetries
    ELSE IF Truthy(lv[2].maxRetries) THEN lv[2].maxRetries
    ELSE IF Truthy(lv[1].maxRetries) THEN lv[1].maxRetries
    ELSE DefaultMaxRetries

\* the spread of the four cache blocks over the defaults, one sub-field at a time
RECURSIVE SpreadField(_, _, _, _)
SpreadField(lv, n, field, default) ==
    IF n = 0 THEN default
    ELSE IF field = "enabled" /\ lv[n].cache.enabled /= Unset THEN lv[n].cache.enabled
    ELSE IF field = "strategy" /\ lv[n].cache.strategy /= "unset" THEN lv[n].cache.strategy
    ELSE IF field = "ttl" /\ lv[n].cache.ttl /= Unset THEN lv[n].cache.ttl
    ELSE IF field = "instance" /\ lv[n].cache.instance /= "unset" THEN lv[n].cache.instance
    ELSE SpreadField(lv, n - 1, field, default)

\* a merge that leaves out the request level
MergeCacheBelowRequest(lv) ==
    [enabled |-> SpreadField(lv, 3, "enabled", 0) = 1,
     strategy |-> SpreadField(lv, 3, "strategy", "simple"),
     ttl |-> SpreadField(lv, 3, "ttl", DefaultTtl),
     instance |-> SpreadField(lv, 3, "instance", lv[1].cache.instance)]

MergeCache(lv) ==
    [enabled |-> SpreadField(lv, 4, "enabled", 0) = 1,
     strategy |-> SpreadField(lv, 4, "strategy", "simple"),
     ttl |-> SpreadField(lv, 4, "ttl", DefaultTtl),
     instance |-> SpreadField(lv, 4, "instance", lv[1].cache.instance)]

\* the spread of the four headers objects, one header at a time
RECURSIVE SpreadHeader(_, _, _)
SpreadHeader(lv, n, h) ==
    IF n = 0 THEN "unset"
    ELSE IF lv[n].headers[h] /= "unset" THEN lv[n].headers[h]
    ELSE SpreadHeader(lv, n - 1, h)

MergeHeaders(lv) == [h \in HeaderNames |-> SpreadHeader(lv, 4, h)]

\* a cascade with || in place of the spread: a falsy setting such as 0 is passed over
RECURSIVE SpreadScalarTruthy(_, _, _, _)
SpreadScalarTruthy(lv, n, field, default) ==
    IF n = 0 THEN default
    ELSE IF field = "timeout" /\ Truthy(lv[n].timeout) THEN lv[n].timeout
    ELSE IF field = "validateStatus" /\ lv[n].validateStatus /= "unset" THEN lv[n].validateStatus
    ELSE IF field = "requestInterceptor" /\ lv[n].requestInterceptor /= "absent" THEN lv[n].requestInterceptor
    ELSE IF field = "responseInterceptor" /\ lv[n].responseInterceptor /= "absent" THEN lv[n].responseInterceptor
    ELSE SpreadScalarTruthy(lv, n - 1, field, default)

\* the spread of the four levels over the defaults, for one top-level setting
RECURSIVE SpreadScalar(_, _, _, _)
SpreadScalar(lv, n, field, default) ==
    IF n = 0 THEN default
    ELSE IF field = "timeout" /\ lv[n].timeout /= Unset THEN lv[n].timeout
    ELSE IF field = "validateStatus" /\ lv[n].validateStatus /= "unset" THEN lv[n].validateStatus
    ELSE IF field = "requestInterceptor" /\ lv[n].requestInterceptor /= "absent" THEN lv[n].requestInterceptor
    ELSE IF field = "responseInterceptor" /\ lv[n].responseInterceptor /= "absent" THEN lv[n].responseInterceptor
    ELSE SpreadScalar(lv, n - 1, field, default)

\* the cascade of redirect with ||
CascadeRedirect(lv) ==
    IF lv[4].redirect /= "unset" THEN lv[4].redirect
    ELSE IF lv[3].redirect /= "unset" THEN lv[3].redirect
    ELSE IF lv[2].redirect /= "unset" THEN lv[2].redirect
    ELSE IF lv[1].redirect /= "unset" THEN lv[1].redirect
    ELSE "follow"

BuildFinalConfig(live) ==
    LET lv == SafeLevels(live) IN
    [maxRetries |-> CascadeMaxRetries(lv), cache |-> MergeCache(lv),
     timeout |-> SpreadScalar(lv, 4, "timeout", DefaultTimeout),
     validateStatus |-> SpreadScalar(lv, 4, "validateStatus", "2xx"),
     redirect |-> CascadeRedirect(lv), headers |-> MergeHeaders(lv),
     requestInterceptor |-> SpreadScalar(lv, 4, "requestInterceptor", "absent"),
     responseInterceptor |-> SpreadScalar(lv, 4, "responseInterceptor", "absent")]

\* the validators a caller may configure, by name; "2xx" is the default one
Accepts(validator, status) ==
    CASE validator = "only200" -> status = 200
      [] validator = "any" -> TRUE
      [] OTHER -> status >= 200 /\ status < 300

\* a wrapper that lets through the statuses above 300 only
ValidateStatusAbove300(cfg, status) ==
    IF cfg.redirect = "manual" /\ status > 300 /\ status < 400 THEN TRUE
    ELSE Accepts(cfg.validateStatus, status)

\* mergedConfig.validateStatus: with redirect 'manual' the caller's validator
\* is wrapped so that 3xx counts as valid
ValidateStatus(cfg, status) ==
    IF cfg.redirect = "manual" /\ status >= 300 /\ status < 400 THEN TRUE
    ELSE Accepts(cfg.validateStatus, status)

(***************************************************************************)
(* The mapper pipeline.                                                    *)
(***************************************************************************)
MapperField(level, type) ==
    IF type = "error" THEN level.errorMapper ELSE level.responseMapper

\* a stage of the pipeline: the level it was declared at and what it does
Stages(lv, n, type) ==
    [i \in 1..Len(MapperField(lv[n], type)) |->
        [level |-> LevelNames[n], does |-> MapperField(lv[n], type)[i]]]

\* a collection in which a level without a mapper of its own discards nothing
RECURSIVE CollectFromSkip(_, _, _, _, _)
CollectFromSkip(lv, live, type, n, acc) ==
    IF n > 4 THEN acc
    ELSE IF ~live THEN CollectFromSkip(lv, live, type, n + 1, acc)
    ELSE LET kept == IF lv[n].inheritMappers = FALSE /\ Len(acc) > 0 /\ Stages(lv, n, type) /= <<>>
                     THEN <<>> ELSE acc
         IN CollectFromSkip(lv, live, type, n + 1, kept \o Stages(lv, n, type))

RECURSIVE CollectFrom(_, _, _, _, _)
CollectFrom(lv, live, type, n, acc) ==
    IF n > 4 THEN acc
    ELSE IF ~live THEN CollectFrom(lv, live, type, n + 1, acc)
    ELSE LET kept == IF lv[n].inheritMappers = FALSE /\ Len(acc) > 0 THEN <<>> ELSE acc
         IN CollectFrom(lv, live, type, n + 1, kept \o Stages(lv, n, type))

CollectMappers(live, type) == CollectFrom(levels, live, type, 1, <<>>)

\* a check in which any of the three flags disables both pipelines
AreMappersDisabledAnyFlag(live, type) ==
    /\ live
    /\ \E n \in 1..4 :
          levels[n].disableMappers \/ levels[n].disableResponseMapper \/ levels[n].disableErrorMapper

AreMappersDisabled(live, type) ==
    /\ live
    /\ \E n \in 1..4 :
          \/ levels[n].disableMappers
          \/ type = "response" /\ levels[n].disableResponseMapper
          \/ type = "error" /\ levels[n].disableErrorMapper

\* one stage applied to the current value: a defined result replaces it,
\* undefined or an exception leaves it as it is
ApplyStage(x, stage) ==
    IF stage.does = "tag" THEN [x EXCEPT !.trail = Append(@, stage.level)] ELSE x

\* a pipeline that a throwing stage ends
RECURSIVE ApplyStagesStopOnThrow(_, _, _)
ApplyStagesStopOnThrow(x, stages, i) ==
    IF i > Len(stages) \/ stages[i].does = "throw" THEN x
    ELSE ApplyStagesStopOnThrow(ApplyStage(x, stages[i]), stages, i + 1)

RECURSIVE ApplyStages(_, _, _)
ApplyStages(x, stages, i) ==
    IF i > Len(stages) THEN x ELSE ApplyStages(ApplyStage(x, stages[i]), stages, i + 1)

ApplyErrorMappers(e, live) ==
    IF AreMappersDisabled(live, "error") THEN e
    ELSE ApplyStages(e, CollectMappers(live, "error"), 1)

ApplyResponseMappers(d, live) ==
    IF AreMappersDisabled(live, "response") THEN d
    ELSE ApplyStages(d, CollectMappers(live, "response"), 1)

(***************************************************************************)
(* SimpleCache.  The Map keeps insertion order; re-setting a present key   *)
(* keeps its position.                                                     *)
(***************************************************************************)
CacheMaxSize == 1

RECURSIVE CacheIndex(_, _, _)
CacheIndex(c, k, i) ==
    IF i > Len(c) THEN 0 ELSE IF c[i].key = k THEN i ELSE CacheIndex(c, k, i + 1)

CacheRemove(c, i) == SubSeq(c, 1, i - 1) \o SubSeq(c, i + 1, Len(c))

\* entry.expiry < Date.now()
Expired(entry, t) == entry.expiry < t

\* SimpleCache.get: [val, cache]
CacheGet(c, k, t) ==
    LET i == CacheIndex(c, k, 1) IN
    IF i = 0 THEN [val |-> Null, cache |-> c]
    ELSE IF Expired(c[i], t) THEN [val |-> Null, cache |-> CacheRemove(c, i)]
    ELSE [val |-> c[i].data, cache |-> c]

\* SimpleCache.has: [val, cache]
CacheHas(c, k, t) ==
    LET i == CacheIndex(c, k, 1) IN
    IF i = 0 THEN [val |-> FALSE, cache |-> c]
    ELSE IF Expired(c[i], t) THEN [val |-> FALSE, cache |-> CacheRemove(c, i)]
    ELSE [val |-> TRUE, cache |-> c]

\* an eviction that takes the key inserted last
EvictNewest(c) == IF Len(c) > 0 THEN SubSeq(c, 1, Len(c) - 1) ELSE c

\* SimpleCache._evictOldest: the first key of the Map
EvictOldest(c) == IF Len(c) > 0 THEN Tail(c) ELSE c

\* SimpleCache.set
CacheSet(c, k, d, ttl, t) ==
    LET entry == [key |-> k, data |-> d, expiry |-> t + ttl, createdAt |-> t]
        i == CacheIndex(c, k, 1)
        room == IF Len(c) >= client.cacheInstance.maxSize /\ i = 0 THEN EvictOldest(c) ELSE c
        j == CacheIndex(room, k, 1)
    IN IF j = 0 THEN Append(room, entry) ELSE [room EXCEPT ![j] = entry]

\* SimpleCache._cleanup
RECURSIVE CacheCleanup(_, _)
CacheCleanup(c, t) ==
    IF c = <<>> THEN <<>>
    ELSE IF Expired(Head(c), t) THEN CacheCleanup(Tail(c), t)
    ELSE <<Head(c)>> \o CacheCleanup(Tail(c), t)

(***************************************************************************)
(* The statistics of a SimpleCache: counted only by an instance made with  *)
(* enableStats true; new SimpleCache() counts nothing.                     *)
(***************************************************************************)
NoStatistics == [hits |-> 0, misses |-> 0, sets |-> 0, deletes |-> 0, evictions |-> 0]

\* new SimpleCache({ enableStats })
NewSimpleCache(enableStats) ==
    [enableStats |-> enableStats, statistics |-> NoStatistics, maxSize |-> CacheMaxSize]

\* SimpleCache._incrementStat
IncrementStat(inst, stat) ==
    IF inst.enableStats THEN [inst EXCEPT !.statistics[stat] = @ + 1] ELSE inst

\* the counting of get(k): a miss for an absent or an expired entry, else a hit
StatsOnGet(inst, c, k, t) ==
    LET i == CacheIndex(c, k, 1) IN
    IF i = 0 \/ Expired(c[i], t) THEN IncrementStat(inst, "misses") ELSE IncrementStat(inst, "hits")

\* the counting of set(k, ...): an eviction, if one is made, and the set
StatsOnSet(inst, c, k) ==
    LET evicts == Len(c) >= inst.maxSize /\ CacheIndex(c, k, 1) = 0 /\ Len(c) > 0
    IN IncrementStat(IF evicts THEN IncrementStat(inst, "evictions") ELSE inst, "sets")

\* the counting of delete(k)
StatsOnDelete(inst, c, k) ==
    IF CacheIndex(c, k, 1) /= 0 THEN IncrementStat(inst, "deletes") ELSE inst

\* the counting of clear(): hits and misses start again
StatsOnClear(inst) ==
    IF inst.enableStats THEN [inst EXCEPT !.statistics.hits = 0, !.statistics.misses = 0] ELSE inst

\* SimpleCache.stats, without hitRate
CacheStats(inst, c) ==
    [hits |-> inst.statistics.hits, misses |-> inst.statistics.misses, sets |-> inst.statistics.sets,
     deletes |-> inst.statistics.deletes, evictions |-> inst.statistics.evictions,
     size |-> Len(c), maxSize |-> inst.maxSize]

(***************************************************************************)
(* The client.  A config is given by the kinds of its parts: baseURL       *)
(* (undefined, null, '', a path, a URL, a number), endpoints (undefined,   *)
(* null, a string, or an object) and, for each endpoint name of the        *)
(* object, the endpoint's config (absent, null, or an object whose path is *)
(* undefined, '', a number or a string).                                   *)
(***************************************************************************)
ConfiguredNames == {"users", "items"}
\* names every object inherits from Object.prototype
InheritedNames == {"toString", "constructor"}
EndpointNames == ConfiguredNames \cup InheritedNames \cup {"missing"}

EndpointKinds == {"absent", "null", "noPath", "emptyPath", "numberPath", "ok"}

ObjectConfig(baseURL, endpoints, entries) ==
    [kind |-> "object", baseURL |-> baseURL, endpoints |-> endpoints, entries |-> entries]

OkConfig == ObjectConfig("url", "object", [n \in ConfiguredNames |-> IF n = "users" THEN "ok" ELSE "absent"])

\* _validateConfig: "ok", or the kind of the error it throws.  A baseURL
\* that is no string passes the checks and fails at startsWith
ValidateConfig(config) ==
    IF config.kind /= "object" THEN "CONFIG"
    ELSE IF config.baseURL \in {"undefined", "null"} THEN "CONFIG"
    ELSE IF config.endpoints /= "object" THEN "CONFIG"
    ELSE IF \E n \in ConfiguredNames : config.entries[n] \notin {"absent", "ok"} THEN "CONFIG"
    ELSE IF config.baseURL = "number" THEN "TypeError"
    ELSE "ok"

\* this.config.endpoints[endpointName] is truthy: an endpoint of the config,
\* or a property the endpoints object inherits
FindsEndpoint(config, name) ==
    \/ name \in ConfiguredNames /\ config.entries[name] = "ok"
    \/ name \in InheritedNames

NoClient == [status |-> "none", config |-> OkConfig, thrown |-> NoErr, asked |-> "none",
             cacheInstance |-> NewSimpleCache(FALSE)]
DefaultClient == [NoClient EXCEPT !.status = "constructed"]

(***************************************************************************)
(* The request URL.  A pathname is a sequence of segments, a segment a     *)
(* sequence of characters; ":" opens a placeholder.  Parameter objects are *)
(* sequences of entries in insertion order.                                *)
(***************************************************************************)
\* the characters of the names and values that occur
Chars(str) ==
    CASE str = "id" -> <<"i", "d">>
      [] str = "idx" -> <<"i", "d", "x">>
      [] str = "a/b" -> <<"a", "/", "b">>
      [] OTHER -> <<str>>

Placeholder(name) == <<":">> \o Chars(name)

\* the first position at or after i where pat occurs in str, 0 if there is none
RECURSIVE IndexOf(_, _, _)
IndexOf(str, pat, i) ==
    IF i + Len(pat) - 1 > Len(str) THEN 0
    ELSE IF SubSeq(str, i, i + Len(pat) - 1) = pat THEN i
    ELSE IndexOf(str, pat, i + 1)

\* str.replace(new RegExp(pat, 'g'), by), pat being literal characters
RECURSIVE ReplaceAll(_, _, _)
ReplaceAll(str, pat, by) ==
    LET i == IndexOf(str, pat, 1) IN
    IF i = 0 THEN str
    ELSE SubSeq(str, 1, i - 1) \o by \o ReplaceAll(SubSeq(str, i + Len(pat), Len(str)), pat, by)

\* encodeURIComponent: the reserved characters become escapes
EncodeURIComponent(str) ==
    [i \in 1..Len(str) |->
        CASE str[i] = "/" -> "%2F"
          [] str[i] = ":" -> "%3A"
          [] OTHER -> str[i]]

\* url.pathname.includes(placeholder)
Includes(pathname, pat) == \E n \in 1..Len(pathname) : IndexOf(pathname[n], pat, 1) /= 0

\* one entry of pathParams: every occurrence of ":" + key is replaced by the encoded value
SubstituteOne(pathname, key, value) ==
    IF Includes(pathname, Placeholder(key))
    THEN [n \in 1..Len(pathname) |->
             ReplaceAll(pathname[n], Placeholder(key), EncodeURIComponent(Chars(value)))]
    ELSE pathname

\* the entries of pathParams, in their order
RECURSIVE SubstitutePathParams(_, _, _)
SubstitutePathParams(pathname, params, i) ==
    IF i > Len(params) THEN pathname
    ELSE SubstitutePathParams(SubstituteOne(pathname, params[i].k, params[i].v), params, i + 1)

\* _extractPathParams: the matches of /:([^\/\?]+)/g, without their colon; a
\* match runs to the end of its segment
RECURSIVE ExtractPathParams(_, _)
ExtractPathParams(pathname, n) ==
    IF n > Len(pathname) THEN <<>>
    ELSE LET seg == pathname[n]
             i == IndexOf(seg, <<":">>, 1)
         IN (IF i = 0 \/ i = Len(seg) THEN <<>> ELSE <<SubSeq(seg, i + 1, Len(seg))>>)
            \o ExtractPathParams(pathname, n + 1)

NoUrl == [pathname |-> <<>>, search |-> <<>>]

\* _buildRequestUrl: the substitution, then the check for placeholders left over
BuildRequestUrl(path, pathParams, searchParams) ==
    LET pathname == SubstitutePathParams(path, pathParams, 1)
        remainingParams == ExtractPathParams(pathname, 1)
    IN [ok |-> remainingParams = <<>>,
        missing |-> remainingParams,
        url |-> [pathname |-> pathname, search |-> searchParams]]

(***************************************************************************)
(* The request body, by the kind of value body() was given: null, '', a    *)
(* string, a plain object, a plain object JSON.stringify throws on, a      *)
(* FormData, a URLSearchParams, a Blob, an ArrayBuffer or a typed array.   *)
(***************************************************************************)
BodyKinds ==
    {"null", "emptyString", "string", "plain", "circular",
     "formData", "urlSearchParams", "blob", "arrayBuffer", "typedArray"}

NoSent == [body |-> "null", json |-> FALSE, contentType |-> "unset"]

\* finalBody is truthy
TruthyBody(body) == body \notin {"null", "emptyString"}

\* typeof finalBody === 'object'
TypeofObject(body) == body \notin {"emptyString", "string"}

\* _setAutoContentType
AutoContentType(body) ==
    CASE body = "formData" -> "unset"
      [] body = "urlSearchParams" -> "application/x-www-form-urlencoded"
      [] body \in {"blob", "arrayBuffer", "typedArray"} -> "application/octet-stream"
      [] body = "string" -> "text/plain"
      [] OTHER -> "application/json"

\* the body as both transport functions prepare it: the content type, then
\* JSON.stringify for every truthy value of type object that is no FormData
PrepareBody(body) ==
    LET stringify == TruthyBody(body) /\ body /= "formData" /\ TypeofObject(body)
    IN [ok |-> ~(stringify /\ body = "circular"),
        sent |-> [body |-> body, json |-> stringify,
                  contentType |-> IF TruthyBody(body) THEN AutoContentType(body) ELSE "unset"]]

(***************************************************************************)
(* The builder's setters.  An argument is null, undefined, a value that is *)
(* no object, an array, or an object.                                      *)
(***************************************************************************)
Arg(kind) == [kind |-> kind, entries |-> <<>>]
Obj(entries) == [kind |-> "object", entries |-> entries]
Entry(k, v) == [k |-> k, v |-> v]
NonObjects == {Arg("null"), Arg("undefined"), Arg("string"), Arg("number"), Arg("array")}
NoCall == [fn |-> "none", arg |-> Arg("undefined")]

\* params !== null && params !== undefined
IsNullish(arg) == arg.kind \in {"null", "undefined"}

\* a check that lets arrays through
NotAnObjectTypeofOnly(arg) == arg.kind \in {"string", "number"}

\* typeof params !== 'object' || Array.isArray(params)
NotAnObject(arg) == arg.kind \in {"string", "number", "array"}

\* the position of key k among the entries, 0 if it is not there
RECURSIVE EntryIndex(_, _, _)
EntryIndex(entries, k, i) ==
    IF i > Len(entries) THEN 0
    ELSE IF entries[i].k = k THEN i
    ELSE EntryIndex(entries, k, i + 1)

\* { ...old, ...new }: a key of old keeps its place and takes the new value, a new key is appended
RECURSIVE SpreadEntries(_, _, _)
SpreadEntries(old, new, i) ==
    IF i > Len(new) THEN old
    ELSE LET at == EntryIndex(old, new[i].k, 1)
         IN SpreadEntries(IF at = 0 THEN Append(old, new[i]) ELSE [old EXCEPT ![at] = new[i]], new, i + 1)

(***************************************************************************)
(* One RequestBuilder.  stack holds the activations of                     *)
(* _executeRequestAndHandleCallbacks: the first attempt at the bottom,     *)
(* each retry above the attempt whose interceptor asked for it.            *)
(***************************************************************************)
\* history: the steps of the attempt of a request, in the order they are
\* taken; kept only for the requests that start with an empty trace
NotTraced == <<"notTraced">>
Step(q, step) == IF q.steps = NotTraced THEN q ELSE [q EXCEPT !.steps = Append(@, step)]
StartSteps(q) == IF q.steps = NotTraced THEN q ELSE [q EXCEPT !.steps = <<>>]

NewReq ==
    [bst |-> "none", live |-> FALSE, key |-> 1, cfg |-> [maxRetries |-> 0, cache |-> [enabled |-> FALSE, strategy |-> "simple", ttl |-> 0, instance |-> "unset"],
             timeout |-> 0, validateStatus |-> "2xx", redirect |-> "follow", headers |-> NoHeaders,
             requestInterceptor |-> "absent", responseInterceptor |-> "absent"],
     lastStatus |-> 0,
     abort |-> NoErr, cancelLog |-> <<>>, stack |-> <<>>, mode |-> "normal", stale |-> NoRes, awaiting |-> 0,
     prom |-> "none", promVal |-> NoRes, out |-> NoRes,
     tcalls |-> 0, okCalls |-> 0, retryCalls |-> 0, retryStarted |-> 0, lastUndef |-> FALSE,
     icptTop |-> NoRes, recoverN |-> 0, servedFromCache |-> FALSE, expectHit |-> FALSE, execOut |-> NoRes,
     onStartN |-> 0, onSuccessN |-> 0, onErrorN |-> 0, onErrorLast |-> NoErr, onFinallyN |-> 0, onRevalLog |-> <<>>,
     pathParams |-> <<>>, searchParams |-> <<>>, url |-> NoUrl, missing |-> <<>>,
     bcalls |-> 0, lastCall |-> NoCall, thrown |-> NoErr,
     body |-> "null", sent |-> NoSent, cacheGet |-> FALSE, cacheSet |-> FALSE,
     endpoint |-> "none", steps |-> NotTraced]

Frame(rc, maxRetries) ==
    [rc |-> rc, maxRetries |-> maxRetries, pc |-> "start", sig |-> "follows", err |-> NoErr, calls |-> 0, res |-> NoRes]

Top(q) == q.stack[Len(q.stack)]
SetTop(q, f) == [q EXCEPT !.stack = [@ EXCEPT ![Len(@)] = f]]
Running(q, pc) == Len(q.stack) > 0 /\ Top(q).pc = pc

\* what the call of the transport makes of config.signal.  A signal that is
\* not aborted is followed (AbortSignal.any, or an abort listener).  One that
\* is aborted already: AbortSignal.any is aborted too; the listener of the
\* timeout controller is added too late to fire, so fetch gets a signal that
\* never follows; the XHR path calls xhr.abort() and returns without send(),
\* so no event ever settles the promise.
SignalAtDispatch(q) ==
    CASE q.abort = NoErr -> "follows"
      [] transport = "native" -> "follows"
      [] transport = "manual" -> "detached"
      [] OTHER -> "hung"

\* the transport function is entered: it builds the URL, which throws a
\* VALIDATION error if placeholders are left over, prepares the body, which
\* throws one if JSON.stringify fails, and then calls the transport
Dispatch(q) ==
    LET built == BuildRequestUrl(levels[2].path, q.pathParams, q.searchParams)
        prepared == PrepareBody(q.body)
    IN IF ~built.ok
       THEN SetTop([q EXCEPT !.missing = built.missing],
                   [Top(q) EXCEPT !.pc = "threw", !.err = Err("VALIDATION", Top(q).rc)])
       ELSE IF ~prepared.ok
       THEN SetTop(q, [Top(q) EXCEPT !.pc = "threw", !.err = Err("VALIDATION", Top(q).rc)])
       ELSE SetTop(Step([q EXCEPT !.tcalls = @ + 1, !.url = built.url, !.sent = prepared.sent], "dispatch"),
                   [Top(q) EXCEPT !.pc = "inflight", !.sig = SignalAtDispatch(q)])

\* _executeFetch after the request interceptor, up to its next await: the
\* cache lookup of the simple strategy, else the transport call
Proceed(q) ==
    IF q.cfg.cache.enabled /\ q.cfg.cache.strategy = "simple"
    THEN SetTop(q, [Top(q) EXCEPT !.pc = "start"])
    ELSE Dispatch(q)

\* a new activation runs without suspending up to its first await: the
\* request interceptor if there is one
Begin(q, f) ==
    LET q1 == StartSteps([q EXCEPT !.stack = Append(@, f)]) IN
    IF q.cfg.requestInterceptor /= "absent"
    THEN SetTop(Step(q1, "requestInterceptor"), [f EXCEPT !.pc = "requestInterceptor"])
    ELSE Proceed(q1)

\* the finally block of _executeRequestAndHandleCallbacks: onFinally, then _cleanup
Finally(q) == [q EXCEPT !.onFinallyN = @ + 1, !.live = FALSE]

\* the promise of the top activation settles with res
Complete(q, res) ==
    LET n == Len(q.stack) IN
    IF n > 1
    THEN \* it is the promise retry() returned to the interceptor of the attempt below
         [q EXCEPT !.stack = [SubSeq(@, 1, n - 1) EXCEPT
                                 ![n - 1] = [@ EXCEPT !.pc = "interceptor", !.res = res]]]
    ELSE IF q.mode = "refresh"
    THEN \* it feeds the .then/.catch/.finally chain of the revalidation promise
         [q EXCEPT !.stack = <<>>, !.prom = "settling", !.execOut = res]
    ELSE \* send() awaits it; on rejection send() runs _cleanup and rethrows
         [q EXCEPT !.stack = <<>>, !.out = res, !.live = FALSE,
                   !.bst = IF res.tag = "err" THEN "rejected" ELSE "resolved"]

\* the success path: response mappers, onSuccess, return
SucceedWith(q, d) ==
    LET mapped == ApplyResponseMappers(d, q.live)
    IN Complete(Finally(Step(Step([q EXCEPT !.onSuccessN = @ + 1], "responseMappers"), "onSuccess")),
                ValRes(mapped))

\* a recovery that sends the interceptor's value through the response mappers
RecoverWithMapped(q, v) == Complete(Finally(q), ValRes(ApplyResponseMappers(v, q.live)))

\* the interceptor returned a defined value: it is returned as it is
RecoverWith(q, v) == Complete(Finally(q), ValRes(v))

\* an exception raised inside the catch block itself leaves it at once: no
\* error mappers, no onError; the finally block still runs
EscapeWith(q, e) == Complete(Finally(q), ErrRes(e))

\* the end of the catch block: error mappers, onError, throw
FailWith(q, e) ==
    LET mapped == ApplyErrorMappers(e, q.live)
    IN Complete(Finally([q EXCEPT !.onErrorN = @ + 1, !.onErrorLast = mapped]), ErrRes(mapped))

\* a coordinator that retries by itself while budget is left
OnAttemptErrorAutoRetry(q, e) ==
    IF Top(q).rc < Top(q).maxRetries
    THEN Begin(SetTop(q, [Top(q) EXCEPT !.pc = "awaitRetry", !.err = e]),
               Frame(Top(q).rc + 1, Top(q).maxRetries))
    ELSE IF icptPolicy = "absent" THEN FailWith(q, e)
    ELSE SetTop(q, [Top(q) EXCEPT !.pc = "interceptor", !.err = e])

\* the catch block up to the call of the error interceptor
OnAttemptError(q, e) ==
    IF icptPolicy = "absent" THEN FailWith(q, e)
    ELSE SetTop(q, [Top(q) EXCEPT !.pc = "interceptor", !.err = e])

\* the guard with > in place of >=
RetryExhaustedLate(f) ==
    LET maxRetries == IF Truthy(f.maxRetries) THEN f.maxRetries ELSE DefaultMaxRetries
    IN f.rc > maxRetries

\* the guard of the retry function: no budget left
RetryExhausted(f) ==
    LET maxRetries == IF Truthy(f.maxRetries) THEN f.maxRetries ELSE DefaultMaxRetries
    IN f.rc >= maxRetries

\* the attempt retry() starts
RetryFrame(f) == Frame(f.rc + 1, f.maxRetries)

(***************************************************************************)
(* The builder and send().                                                 *)
(***************************************************************************)
\* new Vortex(config): _validateConfig, then _normalizeConfig
Configs ==
    { [kind |-> k, baseURL |-> "url", endpoints |-> "object", entries |-> OkConfig.entries] : k \in {"null", "string"} }
    \cup { ObjectConfig(b, e, OkConfig.entries) :
             b \in {"undefined", "null", "empty", "path", "url", "number"},
             e \in {"undefined", "null", "string", "object"} }
    \cup { ObjectConfig(b, "object", en) : b \in {"empty", "url"}, en \in [ConfiguredNames -> EndpointKinds] }

Construct ==
    /\ client.status = "none"
    /\ \E config \in Configs :
          LET v == ValidateConfig(config) IN
          client' = [client EXCEPT !.config = config,
                                   !.status = IF v = "ok" THEN "constructed" ELSE "threw",
                                   !.thrown = IF v = "ok" THEN NoErr ELSE Err(v, 0)]
    /\ UNCHANGED <<levels, icptPolicy, cacheKind, transport, now, cache, registry, sweepOn, req, hist, lastOp>>

\* new RequestBuilder(...) for an endpoint: the constructor starts the sweep timer (_initCleanup)
NewBuilderFor(r, endpoint) ==
    /\ req[r].bst = "none"
    /\ \A o \in Reqs : o < r => req[o].bst /= "none"   \* builders are numbered as they are created
    /\ \E k \in Keys : req' = [req EXCEPT ![r] = [@ EXCEPT !.bst = "built", !.live = TRUE, !.key = k,
                                                            !.endpoint = endpoint]]
    /\ sweepOn' = TRUE
    /\ UNCHANGED <<levels, icptPolicy, cacheKind, transport, now, cache, registry, hist, lastOp>>

\* a builder for the endpoint of the configuration
NewBuilder(r) == NewBuilderFor(r, "users") /\ UNCHANGED client

\* get(name), post(name), ..., request(method, name): _createRequestBuilder
\* throws if the lookup finds nothing, else it makes the builder
CreateRequestBuilder(r, name) ==
    /\ client.status = "constructed"
    /\ IF FindsEndpoint(client.config, name)
       THEN NewBuilderFor(r, name) /\ client' = [client EXCEPT !.asked = name, !.thrown = NoErr]
       ELSE /\ client' = [client EXCEPT !.asked = name, !.thrown = Err("CONFIG", 0)]
            /\ UNCHANGED <<levels, icptPolicy, cacheKind, transport, now, cache, registry, sweepOn, req, hist, lastOp>>

\* pathParams(params) and search(params): null and undefined are passed over,
\* a value that is no object or is an array throws, an object is spread over
\* what the builder holds
ParamsCall(q, fn, params) ==
    LET q1 == [q EXCEPT !.bcalls = @ + 1, !.lastCall = [fn |-> fn, arg |-> params], !.thrown = NoErr]
    IN IF IsNullish(params) THEN q1
       ELSE IF NotAnObject(params) THEN [q1 EXCEPT !.thrown = Err("VALIDATION", 0)]
       ELSE IF fn = "pathParams" THEN [q1 EXCEPT !.pathParams = SpreadEntries(@, params.entries, 1)]
       ELSE [q1 EXCEPT !.searchParams = SpreadEntries(@, params.entries, 1)]

PathParamObjects ==
    { Obj(<<Entry("id", "5")>>), Obj(<<Entry("idx", "7")>>), Obj(<<Entry("id", "a/b")>>),
      Obj(<<Entry("id", "5"), Entry("idx", "7")>>), Obj(<<Entry("idx", "7"), Entry("id", "5")>>) }

PathParams(r) ==
    /\ req[r].bst = "built"
    /\ req[r].bcalls < MaxBuilderCalls
    /\ \E params \in NonObjects \cup PathParamObjects :
          req' = [req EXCEPT ![r] = ParamsCall(@, "pathParams", params)]
    /\ UNCHANGED <<client, levels, icptPolicy, cacheKind, transport, now, cache, registry, sweepOn, hist, lastOp>>

SearchObjects ==
    { Obj(<<Entry("q", "1")>>), Obj(<<Entry("q", "2")>>), Obj(<<Entry("page", "1"), Entry("q", "1")>>) }

Search(r) ==
    /\ req[r].bst = "built"
    /\ req[r].bcalls < MaxBuilderCalls
    /\ \E params \in NonObjects \cup SearchObjects :
          req' = [req EXCEPT ![r] = ParamsCall(@, "search", params)]
    /\ UNCHANGED <<client, levels, icptPolicy, cacheKind, transport, now, cache, registry, sweepOn, hist, lastOp>>

\* { ...this.requestConfig.settings, ...settings } on the request level
RECURSIVE SpreadSettings(_, _, _)
SpreadSettings(level, entries, i) ==
    IF i > Len(entries) THEN level
    ELSE SpreadSettings(IF entries[i].k = "timeout" THEN [level EXCEPT !.timeout = entries[i].v]
                        ELSE [level EXCEPT !.maxRetries = entries[i].v],
                        entries, i + 1)

SettingsObjects ==
    { Obj(<<Entry("timeout", 5)>>), Obj(<<Entry("timeout", 0)>>),
      Obj(<<Entry("maxRetries", 2), Entry("timeout", 7)>>) }

\* settings(settings): the same checks, the object is spread over the request level
Settings(r) ==
    /\ req[r].bst = "built"
    /\ req[r].bcalls < MaxBuilderCalls
    /\ \E settings \in NonObjects \cup SettingsObjects :
          LET q1 == [req[r] EXCEPT !.bcalls = @ + 1, !.lastCall = [fn |-> "settings", arg |-> settings],
                                   !.thrown = NoErr]
          IN IF IsNullish(settings)
             THEN req' = [req EXCEPT ![r] = q1] /\ levels' = levels
             ELSE IF NotAnObject(settings)
             THEN req' = [req EXCEPT ![r] = [q1 EXCEPT !.thrown = Err("VALIDATION", 0)]] /\ levels' = levels
             ELSE /\ req' = [req EXCEPT ![r] = q1]
                  /\ levels' = [levels EXCEPT ![4] = SpreadSettings(@, settings.entries, 1)]
    /\ UNCHANGED <<client, icptPolicy, cacheKind, transport, now, cache, registry, sweepOn, hist, lastOp>>

\* body(data)
Body(r) ==
    /\ req[r].bst = "built"
    /\ \E data \in BodyKinds : req' = [req EXCEPT ![r] = [@ EXCEPT !.body = data]]
    /\ UNCHANGED <<client, levels, icptPolicy, cacheKind, transport, now, cache, registry, sweepOn, hist, lastOp>>

\* cancel(message): aborts the controller if the builder still has one; an
\* AbortController keeps the reason of its first abort
CancelMessages == {"m1", "m2"}

Cancel(r) ==
    /\ req[r].bst /= "none"
    /\ Len(req[r].cancelLog) < MaxCancels
    /\ \E m \in CancelMessages :
          LET q == req[r]
              phase == CASE q.bst = "built" -> "built"
                         [] q.bst \in {"resolved", "rejected"} -> "settled"
                         [] OTHER -> "pending"
          IN req' = [req EXCEPT ![r] =
                        [q EXCEPT !.abort = IF q.live /\ @ = NoErr THEN AbortErr(m) ELSE @,
                                  \* history: the calls of cancel
                                  !.cancelLog = Append(@, [m |-> m, phase |-> phase])]]
    /\ UNCHANGED <<client, levels, icptPolicy, cacheKind, transport, now, cache, registry, sweepOn, hist, lastOp>>

(***************************************************************************)
(* The cache key.  A request is given by its method, the URL its config    *)
(* builds (or the failure to build one), its headers by the names as the   *)
(* caller spelled them, and its body.                                      *)
(***************************************************************************)
KeyHeaderNames == {"authorization", "Authorization", "accept"}
KeyHeaderValues == {"unset", "v1", "v2"}
RelevantHeaders == {"content-type", "accept", "authorization"}
BodyMethods == {"POST", "PUT", "PATCH", "DELETE"}

\* String.prototype.toLowerCase on the names used here
ToLowerCase(name) == IF name = "Authorization" THEN "authorization" ELSE name

\* config.headers[header]: undefined for a name the object does not have
HeaderAt(headers, name) == IF name \in DOMAIN headers THEN headers[name] ELSE "unset"

\* config.headers?.[header] || config.headers?.[header.toLowerCase()], header
\* being one of the lower-case names of relevantHeaders
RelevantValue(headers, header) ==
    IF HeaderAt(headers, header) /= "unset" THEN HeaderAt(headers, header)
    ELSE HeaderAt(headers, ToLowerCase(header))

\* the sorted header:value pairs
HeaderPairs(headers) ==
    { <<ToLowerCase(h), RelevantValue(headers, h)>> : h \in {x \in RelevantHeaders : RelevantValue(headers, x) /= "unset"} }

\* _simpleHash on the body strings used here
SimpleHash(bodyString) == IF bodyString = "b1" THEN "1k" ELSE "1l"

NoKey == [kind |-> "none"]

\* _generateCacheKey at time t: the key, or the fallback key with Date.now()
\* when _buildRequestUrl or JSON.stringify throws
GenerateCacheKey(in, t) ==
    IF in.url = "throws" \/ (in.body = "circular" /\ in.method \in BodyMethods)
    THEN [kind |-> "fallback", method |-> in.method, time |-> t]
    ELSE [kind |-> "key", method |-> in.method, url |-> in.url, headers |-> HeaderPairs(in.headers),
          body |-> IF in.body /= "null" /\ in.method \in BodyMethods THEN SimpleHash(in.body) ELSE "none"]

\* the headers of the config a request interceptor returns
InterceptedHeaders(does, headers) ==
    IF does = "setsAuthorization" THEN [headers EXCEPT !["authorization"] = "v1"] ELSE headers

\* what _generateCacheKey reads of the config the builder made: a GET of one
\* url with none of the relevant headers
BuiltKeyInput ==
    [method |-> "GET", url |-> "u1", body |-> "null", headers |-> [n \in KeyHeaderNames |-> "unset"]]

\* the key _executeFetch generates from finalConfig, the config the request
\* interceptor returned.  Keys are numbered: q.key is the key of the config as
\* built, and a config with another key string has a number of its own.
FinalKey(q) ==
    IF GenerateCacheKey([BuiltKeyInput EXCEPT !.headers = InterceptedHeaders(q.cfg.requestInterceptor, @)], now)
         = GenerateCacheKey(BuiltKeyInput, now)
    THEN q.key ELSE q.key + NumKeys

\* what the custom cache instance may do on get: answer, or throw
GetThrows == IF cacheKind = "faulty" THEN BOOLEAN ELSE {FALSE}

\* send(): _buildFinalConfig, onStart, then the swr strategy or the normal request.
\* Under swr the call of cache.get is made here; its answer is awaited.
Send(r) ==
    /\ req[r].bst = "built"
    /\ LET q == req[r]
           cfg == BuildFinalConfig(q.live)
           q1 == [q EXCEPT !.cfg = cfg, !.onStartN = @ + 1]
       IN IF cfg.cache.enabled /\ cfg.cache.strategy = "swr"
          THEN \E threw \in GetThrows :
                  LET g == CacheGet(cache, q.key, now) IN
                  /\ req' = [req EXCEPT ![r] = [q1 EXCEPT !.bst = "swrGet", !.cacheGet = TRUE,
                                !.stale = IF threw THEN ErrRes(Err("CACHE", 0)) ELSE ValRes(g.val)]]
                  /\ cache' = IF threw THEN cache ELSE g.cache
                  /\ client' = IF threw THEN client
                                ELSE [client EXCEPT !.cacheInstance = StatsOnGet(@, cache, q.key, now)]
          ELSE /\ req' = [req EXCEPT ![r] = Begin([q1 EXCEPT !.bst = "exec", !.mode = "normal"],
                                                  Frame(0, cfg.maxRetries))]
               /\ cache' = cache
               /\ client' = client
    /\ hist' = [hist EXCEPT !.destroyed = FALSE]
    /\ UNCHANGED <<levels, icptPolicy, cacheKind, transport, now, registry, sweepOn, lastOp>>

(***************************************************************************)
(* One attempt: _executeFetch inside _executeRequestAndHandleCallbacks.    *)
(***************************************************************************)
\* _executeFetch once the lookup of the simple strategy has answered: a
\* non-null value is returned, anything else (null, or a throwing cache) goes
\* on to the transport
ExecuteFetch(r) ==
    /\ Running(req[r], "start")
    /\ \E threw \in GetThrows :
          LET q == req[r]
              g == CacheGet(cache, FinalKey(q), now)
              q1 == Step([q EXCEPT !.expectHit = now < hist.stored[FinalKey(q)].until, !.cacheGet = TRUE], "cacheLookup")
          IN IF threw
             THEN /\ req' = [req EXCEPT ![r] = Dispatch(Step([q EXCEPT !.cacheGet = TRUE], "cacheLookup"))]
                  /\ cache' = cache
                  /\ client' = client
             ELSE /\ cache' = g.cache
                  /\ client' = [client EXCEPT !.cacheInstance = StatsOnGet(@, cache, FinalKey(q), now)]
                  /\ req' = [req EXCEPT ![r] =
                                IF g.val /= Null
                                THEN SucceedWith([q1 EXCEPT !.servedFromCache = TRUE], g.val)
                                ELSE Dispatch(q1)]
    /\ UNCHANGED <<levels, icptPolicy, cacheKind, transport, now, registry, sweepOn, hist, lastOp>>

\* what a request interceptor does: it returns the config, returns null or
\* undefined, or throws an Error, a VortexError of a kind of its own, or null
RequestInterceptors == {"passes", "returnsNull", "returnsUndefined", "throwsError", "throwsVortexError", "throwsNull"}

\* the error the attempt gets: a missing config is a CONFIG error; in the
\* catch around the interceptor a VortexError is rethrown as it is and an
\* Error is wrapped in a CONFIG error; for null the wrapping reads
\* error.message, and the TypeError this raises is wrapped in a NETWORK error
\* by the catch of _executeFetch
RequestInterceptorError(does, rc) ==
    CASE does = "throwsVortexError" -> Err("VALIDATION", rc)
      [] does = "throwsNull" -> Err("NETWORK", rc)
      [] OTHER -> Err("CONFIG", rc)

\* the request interceptor has settled
RequestInterceptorSettle(r) ==
    /\ Running(req[r], "requestInterceptor")
    /\ LET q == req[r]
           does == q.cfg.requestInterceptor
       IN req' = [req EXCEPT ![r] =
                     IF does \in {"passes", "setsAuthorization"} THEN Proceed(q)
                     ELSE OnAttemptError(q, RequestInterceptorError(does, Top(q).rc))]
    /\ UNCHANGED <<client, levels, icptPolicy, cacheKind, transport, now, cache, registry, sweepOn, hist, lastOp>>

\* the promise of the transport function rejected before the transport was
\* called: the attempt goes to its catch block
AttemptThrew(r) ==
    /\ Running(req[r], "threw")
    /\ req' = [req EXCEPT ![r] = OnAttemptError(@, Top(@).err)]
    /\ UNCHANGED <<client, levels, icptPolicy, cacheKind, transport, now, cache, registry, sweepOn, hist, lastOp>>

\* what the server may answer: 200 with one of two bodies, 204, 500
TransportOutcomes == {"d1", "d2", "null", "fail"}
\* answers told apart by their status only
StatusOutcomes == {"s200", "s299", "s300", "s302", "s399", "s400"}

StatusOf(o) ==
    CASE o \in {"d1", "d2", "s200"} -> 200
      [] o = "null" -> 204
      [] o = "s299" -> 299
      [] o = "s300" -> 300
      [] o = "s302" -> 302
      [] o = "s399" -> 399
      [] o = "s400" -> 400
      [] OTHER -> 500

\* the parsed body: null for 204
BodyOf(o) == IF o = "null" THEN Null ELSE IF o \in {"d1", "d2"} THEN Val(o) ELSE Val("d1")

\* history: what set(k, d, ttl) leaves in force, c being the cache after the
\* call: the new entry until now + ttl, and no longer the entry it evicted
NotStored == [until |-> 0, val |-> Null]

Remember(stored, c, k, d, ttl) ==
    [o \in CacheKeys |->
        IF o = k THEN [until |-> now + ttl, val |-> d]
        ELSE IF CacheIndex(c, o, 1) = 0 /\ CacheIndex(cache, o, 1) /= 0 THEN NotStored
        ELSE stored[o]]

\* an attempt that stores nothing
StoreResponseNothing(q, d) == cache

\* the store after a successful response: only a non-null value, only when caching is enabled
StoreResponse(q, d) ==
    IF q.cfg.cache.enabled /\ d /= Null
    THEN CacheSet(cache, FinalKey(q), d, q.cfg.cache.ttl, now)
    ELSE cache

\* what a response interceptor does: it returns the response or throws an Error
ResponseInterceptors == {"passes", "throws"}

\* a response handling without status validation
ResponseOutcomeUnvalidated(cfg, status) ==
    IF cfg.responseInterceptor = "throws" THEN "interceptorThrew" ELSE "valid"

\* what becomes of a response: the response interceptor, if there is one,
\* then the validation of the status
ResponseOutcome(cfg, status) ==
    IF cfg.responseInterceptor = "throws" THEN "interceptorThrew"
    ELSE IF ~ValidateStatus(cfg, status) THEN "invalid"
    ELSE "valid"

\* history: the steps taken on a response, up to the store in the cache
ResponseSteps(q, outcome, status, d) ==
    LET a == IF q.cfg.responseInterceptor /= "absent" THEN Step(q, "responseInterceptor") ELSE q
        b == IF outcome = "interceptorThrew" THEN a ELSE Step(a, "validateStatus")
        c == IF outcome = "valid" /\ status /= 204 THEN Step(b, "parseBody") ELSE b
    IN IF outcome = "valid" /\ q.cfg.cache.enabled /\ d /= Null THEN Step(c, "cacheStore") ELSE c

\* how a transport whose signal is aborted rejects: the XHR abort listener
\* rejects with the reason; fetch rejects with an AbortError (a DOMException)
\* or, as the Fetch standard has it, with the reason of the signal
AbortOutcomes == IF transport = "xhr" THEN {"listener"} ELSE {"abortError", "reason"}

\* the error of the attempt after the catch block of _executeFetchRequest: for
\* an AbortError the reason of the signal is rethrown; any other rejection,
\* the reason itself included (its name is 'VortexError'), is wrapped in a
\* NETWORK error with the same message
AbortRejection(q, o) ==
    IF o = "reason" THEN [Err("NETWORK", Top(q).rc) EXCEPT !.msg = q.abort.msg] ELSE q.abort

\* the transport call settles: an aborted signal the transport follows makes
\* it reject; otherwise the server answers, a status validateStatus rejects
\* is an HTTP error, and a valid one yields the parsed body
TransportSettleOn(r, answers) ==
    /\ Running(req[r], "inflight")
    /\ Top(req[r]).sig /= "hung"
    /\ \E o \in IF req[r].abort /= NoErr /\ Top(req[r]).sig = "follows"
                THEN AbortOutcomes ELSE answers :
          LET d == BodyOf(o)
              \* history: the status of the last response
              outcome == ResponseOutcome(req[r].cfg, StatusOf(o))
              q == IF o \in AbortOutcomes THEN req[r]
                   ELSE ResponseSteps([req[r] EXCEPT !.lastStatus = StatusOf(o)], outcome, StatusOf(o), d)
          IN IF o \in AbortOutcomes
             THEN /\ req' = [req EXCEPT ![r] = OnAttemptError(q, AbortRejection(q, o))]
                  /\ UNCHANGED <<cache, hist, client>>
             ELSE IF outcome = "interceptorThrew"
             THEN /\ req' = [req EXCEPT ![r] = OnAttemptError(q, Err("CONFIG", Top(q).rc))]
                  /\ UNCHANGED <<cache, hist, client>>
             ELSE IF outcome = "invalid"
             THEN /\ req' = [req EXCEPT ![r] = OnAttemptError(q, Err("HTTP", Top(q).rc))]
                  /\ UNCHANGED <<cache, hist, client>>
             ELSE /\ req' = [req EXCEPT ![r] =
                            SucceedWith([q EXCEPT !.okCalls = @ + 1,
                                                  !.cacheSet = @ \/ (q.cfg.cache.enabled /\ d /= Null)], d)]
                  /\ cache' = StoreResponse(q, d)
                  /\ client' = IF q.cfg.cache.enabled /\ d /= Null
                               THEN [client EXCEPT !.cacheInstance = StatsOnSet(@, cache, FinalKey(q))]
                               ELSE client
                  /\ hist' = IF q.cfg.cache.enabled /\ d /= Null
                             THEN [hist EXCEPT !.stored = Remember(@, cache', FinalKey(q), d, q.cfg.cache.ttl)]
                             ELSE hist
    /\ UNCHANGED <<levels, icptPolicy, cacheKind, transport, now, registry, sweepOn, lastOp>>

TransportSettle(r) == TransportSettleOn(r, TransportOutcomes)

\* the same step, the answers told apart by their status
TransportRespond(r) == TransportSettleOn(r, StatusOutcomes)

(***************************************************************************)
(* The error interceptor.  Policy "once" is the interceptor that calls     *)
(* retry() once on every attempt, returns what it resolves to, rethrows    *)
(* the error when it returns undefined and lets a rejection propagate;     *)
(* policy "any" is an arbitrary interceptor.                               *)
(***************************************************************************)
MayCallRetry(q) ==
    CASE icptPolicy = "once" -> Top(q).calls = 0
      [] icptPolicy = "any" -> q.retryCalls < MaxRetryCalls
      [] OTHER -> FALSE

\* the interceptor calls retry(): undefined when the budget is used up,
\* otherwise the promise of a new attempt
CallRetry(q) ==
    LET f == Top(q) IN
    IF RetryExhausted(f)
    THEN SetTop([q EXCEPT !.retryCalls = @ + 1, !.lastUndef = TRUE],
                [f EXCEPT !.calls = @ + 1, !.res = UndefRes])
    ELSE LET q1 == SetTop([q EXCEPT !.retryCalls = @ + 1, !.retryStarted = @ + 1, !.lastUndef = FALSE],
                          [f EXCEPT !.calls = @ + 1, !.pc = "awaitRetry", !.res = NoRes])
         IN Begin(q1, RetryFrame(f))

IcptRetry(r) ==
    /\ Running(req[r], "interceptor")
    /\ MayCallRetry(req[r])
    /\ req' = [req EXCEPT ![r] = CallRetry(req[r])]
    /\ UNCHANGED <<client, levels, icptPolicy, cacheKind, transport, now, cache, registry, sweepOn, hist, lastOp>>

ReturnChoices(f) ==
    CASE icptPolicy = "once" -> IF f.res.tag = "val" THEN {"result"} ELSE {}
      [] icptPolicy = "any" -> {"undefined", "recover"} \cup (IF f.res.tag = "val" THEN {"result"} ELSE {})
      [] OTHER -> {}

\* the interceptor returns: undefined lets the error go on, anything else is the result
IcptReturn(r) ==
    /\ Running(req[r], "interceptor")
    /\ \E c \in ReturnChoices(Top(req[r])) :
          LET f == Top(req[r])
              v == IF c = "recover" THEN Val("rec") ELSE f.res.val
              \* history: the defined values returned, and the one returned for the first attempt
              q == IF c = "undefined" THEN req[r]
                   ELSE [req[r] EXCEPT !.recoverN = @ + 1,
                                       !.icptTop = IF Len(req[r].stack) = 1 THEN ValRes(v) ELSE @]
          IN req' = [req EXCEPT ![r] =
                        IF c = "undefined" THEN FailWith(q, f.err) ELSE RecoverWith(q, v)]
    /\ UNCHANGED <<client, levels, icptPolicy, cacheKind, transport, now, cache, registry, sweepOn, hist, lastOp>>

ThrowChoices(f) ==
    CASE icptPolicy = "once" ->
            IF f.res.tag = "undef" THEN {"orig"} ELSE IF f.res.tag = "err" THEN {"nested"} ELSE {}
      [] icptPolicy = "any" ->
            {"orig", "new", "plain", "nullish"} \cup (IF f.res.tag = "err" THEN {"nested"} ELSE {})
      [] OTHER -> {}

\* what reaches the catch around the interceptor: a VortexError as it is,
\* an Error wrapped in a CONFIG error; for null or undefined the wrapping
\* reads interceptedError.message and raises a TypeError
Thrown(f, c) ==
    CASE c = "orig" -> f.err
      [] c = "nested" -> IF f.res.err.kind \in VortexKinds THEN f.res.err ELSE Err("CONFIG", f.rc)
      [] c = "new" -> Err("VALIDATION", f.rc)
      [] c = "nullish" -> Err("TypeError", f.rc)
      [] OTHER -> Err("CONFIG", f.rc)

IcptThrow(r) ==
    /\ Running(req[r], "interceptor")
    /\ \E c \in ThrowChoices(Top(req[r])) :
          req' = [req EXCEPT ![r] = IF c = "nullish"
                                    THEN EscapeWith(req[r], Thrown(Top(req[r]), c))
                                    ELSE FailWith(req[r], Thrown(Top(req[r]), c))]
    /\ UNCHANGED <<client, levels, icptPolicy, cacheKind, transport, now, cache, registry, sweepOn, hist, lastOp>>

(***************************************************************************)
(* Stale-while-revalidate: _handleStaleWhileRevalidate and the registry.   *)
(* A revalidation promise is named by the builder that started it.         *)
(***************************************************************************)
NoEntry == [p |-> 0, ts |-> 0]

\* q is a refresh for key k whose request has not settled yet
InFlightRefresh(q, k) == q.mode = "refresh" /\ q.stack /= <<>> /\ q.key = k

\* RequestBuilder.inflightRequests.get(revalidationKey): the builder whose refresh is registered, or 0
FindRevalidation(k) == registry[k].p

\* a send() that waits for the refresh even when it holds stale data
StaleOrAwaitAlways(q, p) == [q EXCEPT !.bst = "awaitReval", !.awaiting = p]

\* what send() does once the refresh is known: stale data is returned at once,
\* otherwise the revalidation promise p is awaited
StaleOrAwait(q, p) ==
    IF q.stale.val /= Null
    THEN [q EXCEPT !.bst = "resolved", !.out = ValRes(q.stale.val)]
    ELSE [q EXCEPT !.bst = "awaitReval", !.awaiting = p]

\* the continuation of _handleStaleWhileRevalidate after cache.get has answered
SwrContinue(r) ==
    /\ req[r].bst = "swrGet"
    /\ LET q == req[r]
           p == FindRevalidation(q.key)
       IN IF q.stale.tag = "err"
          THEN \* the catch: fall back to the normal request
               /\ req' = [req EXCEPT ![r] = Begin([q EXCEPT !.bst = "exec", !.mode = "normal"],
                                                  Frame(0, q.cfg.maxRetries))]
               /\ UNCHANGED <<registry, sweepOn>>
          ELSE IF p = 0
          THEN \* start the refresh and register it (_storeInflightRequest, _initCleanup)
               /\ req' = [req EXCEPT ![r] =
                             StaleOrAwait(Begin([q EXCEPT !.mode = "refresh", !.prom = "pending"],
                                                Frame(0, q.cfg.maxRetries)), r)]
               /\ registry' = [registry EXCEPT ![q.key] = [p |-> r, ts |-> now]]
               /\ sweepOn' = TRUE
          ELSE /\ req' = [req EXCEPT ![r] = StaleOrAwait(q, p)]
               /\ UNCHANGED <<registry, sweepOn>>
    /\ UNCHANGED <<client, levels, icptPolicy, cacheKind, transport, now, cache, hist, lastOp>>

\* .then of the revalidation promise: onRevalidate sees the fresh value
NotifyRevalidate(q) ==
    IF q.execOut.tag = "val"
    THEN [q EXCEPT !.onRevalLog = Append(@, q.execOut.val)]
    ELSE q

\* .then/.catch: the value the revalidation promise settles with
RevalidationValue(res) == IF res.tag = "val" THEN res ELSE ValRes(Null)

\* the refresh has settled: .then, .catch, then .finally deletes the key from the
\* registry, whoever registered it; the cleanup of _storeInflightRequest follows
\* and deletes only its own promise
RevalidateSettle(r) ==
    /\ req[r].prom = "settling"
    /\ LET q == NotifyRevalidate(req[r]) IN
       /\ req' = [req EXCEPT ![r] = [q EXCEPT !.prom = "settled", !.promVal = RevalidationValue(q.execOut)]]
       /\ registry' = [registry EXCEPT ![q.key] = NoEntry]
    /\ UNCHANGED <<client, levels, icptPolicy, cacheKind, transport, now, cache, sweepOn, hist, lastOp>>

\* send() resumes from "await revalidationPromise"
AwaitRevalidation(r) ==
    /\ req[r].bst = "awaitReval"
    /\ req[req[r].awaiting].prom = "settled"
    /\ LET res == req[req[r].awaiting].promVal IN
       req' = [req EXCEPT ![r] = [@ EXCEPT !.out = res,
                                     !.bst = IF res.tag = "err" THEN "rejected" ELSE "resolved"]]
    /\ UNCHANGED <<client, levels, icptPolicy, cacheKind, transport, now, cache, registry, sweepOn, hist, lastOp>>

\* a sweep that lets entries live twice as long
TooOldAtTwice(entry, t) == entry.ts /= 0 /\ t - entry.ts > MaxInflightAge + MaxInflightAge

\* promise._timestamp && now - promise._timestamp > maxInflightAge
TooOld(entry, t) == entry.ts /= 0 /\ t - entry.ts > MaxInflightAge

\* a sweep that stops the timer whatever is left in the registry
SweepAndStop ==
    /\ sweepOn
    /\ registry' = [k \in Keys |-> IF registry[k].p /= 0 /\ TooOld(registry[k], now)
                                   THEN NoEntry ELSE registry[k]]
    /\ sweepOn' = FALSE
    /\ UNCHANGED <<client, levels, icptPolicy, cacheKind, transport, now, cache, req, hist, lastOp>>

\* _cleanupInflightRequests, run by the interval timer
Sweep ==
    /\ sweepOn
    /\ LET swept == [k \in Keys |-> IF registry[k].p /= 0 /\ TooOld(registry[k], now)
                                    THEN NoEntry ELSE registry[k]]
       IN /\ registry' = swept
          /\ sweepOn' = (\E k \in Keys : swept[k].p /= 0)
    /\ UNCHANGED <<client, levels, icptPolicy, cacheKind, transport, now, cache, req, hist, lastOp>>

\* client.destroy(): the cache instance is destroyed (cleared), then
\* RequestBuilder.destroy() stops the timer and clears the registry.
\* history, kept where watched: destroy() has resolved and no send() was called since
DestroyOn(watched) ==
    /\ cache' = <<>>
    /\ registry' = [k \in Keys |-> NoEntry]
    /\ sweepOn' = FALSE
    /\ hist' = [stored |-> [k \in CacheKeys |-> NotStored], destroyed |-> watched]
    /\ client' = [client EXCEPT !.cacheInstance = StatsOnClear(@)]
    /\ UNCHANGED <<levels, icptPolicy, cacheKind, transport, now, req, lastOp>>

Destroy == DestroyOn(FALSE)

\* the same call, with its history kept
DestroyWatched == DestroyOn(TRUE)

\* how far the clock runs
TimeLimit == IF BuildFinalConfig(TRUE).cache.strategy = "swr" THEN MaxTime ELSE MaxCacheTime

\* time passes
Tick ==
    /\ now < TimeLimit
    /\ now' = now + 1
    /\ UNCHANGED <<client, levels, icptPolicy, cacheKind, transport, cache, registry, sweepOn, req, hist, lastOp>>

(***************************************************************************)
(* Direct calls on the SimpleCache instance.                               *)
(***************************************************************************)
DirectTtls == {1, 2}
DirectData == {"d1", "d2"}

CacheOpSet(k) ==
    /\ \E d \in DirectData, ttl \in DirectTtls :
          /\ cache' = CacheSet(cache, k, Val(d), ttl, now)
          /\ hist' = [hist EXCEPT !.stored = Remember(@, cache', k, Val(d), ttl)]
    /\ lastOp' = [op |-> "set", key |-> k, res |-> Null, found |-> FALSE, at |-> now,
                  evicted |-> {cache[i].key : i \in 1..Len(cache)} \ {cache'[i].key : i \in 1..Len(cache')}]
    /\ client' = [client EXCEPT !.cacheInstance = StatsOnSet(@, cache, k)]
    /\ UNCHANGED <<levels, icptPolicy, cacheKind, transport, now, registry, sweepOn, req>>

CacheOpGet(k) ==
    /\ cache' = CacheGet(cache, k, now).cache
    /\ lastOp' = [op |-> "get", key |-> k, res |-> CacheGet(cache, k, now).val, found |-> FALSE, at |-> now]
    /\ client' = [client EXCEPT !.cacheInstance = StatsOnGet(@, cache, k, now)]
    /\ UNCHANGED <<levels, icptPolicy, cacheKind, transport, now, registry, sweepOn, req, hist>>

CacheOpHas(k) ==
    /\ cache' = CacheHas(cache, k, now).cache
    /\ lastOp' = [op |-> "has", key |-> k, res |-> Null, found |-> CacheHas(cache, k, now).val, at |-> now]
    /\ UNCHANGED <<client, levels, icptPolicy, cacheKind, transport, now, registry, sweepOn, req, hist>>

\* SimpleCache.delete: true if the key was in the Map
CacheOpDelete(k) ==
    /\ LET i == CacheIndex(cache, k, 1) IN
       /\ cache' = IF i = 0 THEN cache ELSE CacheRemove(cache, i)
       /\ lastOp' = [op |-> "delete", key |-> k, res |-> Null, found |-> i /= 0, at |-> now]
    /\ hist' = [hist EXCEPT !.stored[k] = NotStored]
    /\ client' = [client EXCEPT !.cacheInstance = StatsOnDelete(@, cache, k)]
    /\ UNCHANGED <<levels, icptPolicy, cacheKind, transport, now, registry, sweepOn, req>>

\* SimpleCache.clear
CacheOpClear ==
    /\ cache' = <<>>
    /\ lastOp' = [op |-> "clear", key |-> 0, res |-> Null, found |-> FALSE, at |-> now]
    /\ hist' = [hist EXCEPT !.stored = [k \in CacheKeys |-> NotStored]]
    /\ client' = [client EXCEPT !.cacheInstance = StatsOnClear(@)]
    /\ UNCHANGED <<levels, icptPolicy, cacheKind, transport, now, registry, sweepOn, req>>

\* SimpleCache.cleanup, also run by the cache's own interval timer
CacheOpCleanup ==
    /\ cache' = CacheCleanup(cache, now)
    /\ lastOp' = [op |-> "cleanup", key |-> 0, res |-> Null, found |-> FALSE, at |-> now]
    /\ UNCHANGED <<client, levels, icptPolicy, cacheKind, transport, now, registry, sweepOn, req, hist>>

(***************************************************************************)
(* Specification of one request without caching: configuration cascade,    *)
(* retries and the error pipeline.                                         *)
(***************************************************************************)
\* the maxRetries settings tried at the client, endpoint, method and request level
LevelRetryVals == <<{Unset, 0, 2}, {Unset, 0}, {Unset, 0}, {Unset, 0, 1}>>

RetryLevels ==
    { [n \in 1..4 |-> [EmptyLevel EXCEPT !.maxRetries = mr[n],
                                         !.errorMapper = IF n = 1 THEN em ELSE <<>>,
                                         !.responseMapper = IF n = 1 THEN em ELSE <<>>]] :
        mr \in {f \in [1..4 -> {Unset, 0, 1, 2}] : \A n \in 1..4 : f[n] \in LevelRetryVals[n]},
        em \in {<<>>, <<"tag">>} }

NoRegistry == [k \in Keys |-> NoEntry]
NoHist == [stored |-> [k \in CacheKeys |-> NotStored], destroyed |-> FALSE]
NoOp == [op |-> "none", key |-> 0, res |-> Null, found |-> FALSE, at |-> 0]

Init ==
    /\ levels \in RetryLevels
    /\ icptPolicy \in {"absent", "once", "any"}
    /\ cacheKind = "simple"
    /\ transport = "native"
    /\ now = 1
    /\ cache = <<>>
    /\ registry = NoRegistry
    /\ sweepOn = FALSE
    /\ req = [r \in Reqs |-> NewReq]
    /\ hist = NoHist
    /\ lastOp = NoOp
    /\ client = DefaultClient

Next ==
    \/ NewBuilder(1)
    \/ Send(1)
    \/ TransportSettle(1)
    \/ IcptRetry(1)
    \/ IcptReturn(1)
    \/ IcptThrow(1)

Spec == Init /\ [][Next]_vars

(***************************************************************************)
(* Cancellation: one builder without error interceptor, cancelled before,  *)
(* during or after its send(), on each of the three transport paths.       *)
(***************************************************************************)
Transports == {"native", "manual", "xhr"}

InitCancel ==
    /\ levels \in RetryLevels
    /\ icptPolicy = "absent"
    /\ cacheKind = "simple"
    /\ transport \in Transports
    /\ now = 1
    /\ cache = <<>>
    /\ registry = NoRegistry
    /\ sweepOn = FALSE
    /\ req = [r \in Reqs |-> NewReq]
    /\ hist = NoHist
    /\ lastOp = NoOp
    /\ client = DefaultClient

NextCancel ==
    \/ NewBuilder(1)
    \/ Cancel(1)
    \/ Send(1)
    \/ TransportSettle(1)

SpecCancel == InitCancel /\ [][NextCancel]_vars

(***************************************************************************)
(* Configuration: one request under each combination of settings at the    *)
(* four levels.  A value set at a level is marked by the level, so that    *)
(* the resolved configuration tells where each part came from.             *)
(***************************************************************************)
\* timeout: not set, 0, or a value of the level's own
TimeoutAt(n, choice) ==
    CASE choice = "unset" -> Unset
      [] choice = "zero" -> 0
      [] OTHER -> n * 1000

ScalarLevels ==
    { [n \in 1..4 |-> [EmptyLevel EXCEPT !.timeout = TimeoutAt(n, t[n])]] :
        t \in [1..4 -> {"unset", "zero", "own"}] }

HeaderLevels ==
    { [n \in 1..4 |-> [EmptyLevel EXCEPT
                          !.headers = [h \in HeaderNames |-> IF n \in has[h] THEN LevelNames[n] ELSE "unset"]]] :
        has \in [HeaderNames -> SUBSET (1..4)] }

CacheBlockLevels ==
    { [n \in 1..4 |-> [EmptyLevel EXCEPT
                          !.cache = [enabled |-> IF n = 1 THEN on ELSE IF n = 3 THEN off ELSE Unset,
                                     strategy |-> "unset",
                                     ttl |-> IF n \in ttlAt THEN n ELSE Unset,
                                     instance |-> IF n \in instAt THEN LevelNames[n] ELSE "unset"]]] :
        on \in {Unset, 1}, off \in {Unset, 0}, ttlAt \in SUBSET (1..4), instAt \in SUBSET {1, 2} }

RedirectLevels ==
    { [n \in 1..4 |-> IF n \in {1, 4}
                      THEN [EmptyLevel EXCEPT !.redirect = rd[n], !.validateStatus = vs[n]]
                      ELSE EmptyLevel] :
        rd \in [{1, 4} -> {"unset", "manual", "follow"}],
        vs \in [{1, 4} -> {"unset", "only200", "any"}] }

MapperLevels ==
    { [n \in 1..4 |-> [EmptyLevel EXCEPT
                          !.responseMapper = IF n \in has THEN <<"tag">> ELSE <<>>,
                          !.errorMapper = IF n \in has THEN <<"tag">> ELSE <<>>,
                          !.inheritMappers = n \notin breaks]] :
        has \in SUBSET (1..4), breaks \in SUBSET (1..4) }

InitConfig ==
    /\ levels \in ScalarLevels \cup HeaderLevels \cup CacheBlockLevels \cup RedirectLevels \cup MapperLevels
    /\ icptPolicy = "absent"
    /\ cacheKind = "simple"
    /\ transport = "native"
    /\ now = 1
    /\ cache = <<>>
    /\ registry = NoRegistry
    /\ sweepOn = FALSE
    /\ req = [r \in Reqs |-> NewReq]
    /\ hist = NoHist
    /\ lastOp = NoOp
    /\ client = DefaultClient

NextConfig ==
    \/ NewBuilder(1)
    \/ Send(1)
    \/ ExecuteFetch(1)
    \/ TransportRespond(1)

SpecConfig == InitConfig /\ [][NextConfig]_vars

(***************************************************************************)
(* Mappers: one request whose levels declare stages that return a value    *)
(* ("tag"), return undefined ("undef") or throw ("throw"), and one whose   *)
(* levels set the disable flags.                                           *)
(***************************************************************************)
StageKinds == {<<>>, <<"tag">>, <<"undef">>, <<"throw">>}

StageLevels ==
    { [n \in 1..4 |-> [EmptyLevel EXCEPT
                          !.responseMapper = IF n = 4 THEN arr ELSE st[n],
                          !.errorMapper = IF n = 4 THEN arr ELSE st[n]]] :
        st \in [1..3 -> StageKinds], arr \in {<<>>, <<"tag", "throw", "tag">>, <<"undef", "tag">>} }

DisableFlags == {"none", "disableMappers", "disableResponseMapper", "disableErrorMapper"}

DisableLevels ==
    { [n \in 1..4 |-> [EmptyLevel EXCEPT
                          !.responseMapper = IF n \in {1, 4} THEN <<"tag">> ELSE <<>>,
                          !.errorMapper = IF n \in {1, 4} THEN <<"tag">> ELSE <<>>,
                          !.disableMappers = (fl[n] = "disableMappers"),
                          !.disableResponseMapper = (fl[n] = "disableResponseMapper"),
                          !.disableErrorMapper = (fl[n] = "disableErrorMapper")]] :
        fl \in [1..4 -> DisableFlags] }

InitMappers ==
    /\ levels \in StageLevels \cup DisableLevels
    /\ icptPolicy = "absent"
    /\ cacheKind = "simple"
    /\ transport = "native"
    /\ now = 1
    /\ cache = <<>>
    /\ registry = NoRegistry
    /\ sweepOn = FALSE
    /\ req = [r \in Reqs |-> NewReq]
    /\ hist = NoHist
    /\ lastOp = NoOp
    /\ client = DefaultClient

NextMappers ==
    \/ NewBuilder(1)
    \/ Send(1)
    \/ TransportSettle(1)

SpecMappers == InitMappers /\ [][NextMappers]_vars

(***************************************************************************)
(* The builder's setters and the URL: one request on an endpoint whose     *)
(* path has placeholders, after up to MaxBuilderCalls calls of pathParams, *)
(* search and settings.                                                    *)
(***************************************************************************)
PathTemplates ==
    { << <<"users">>, Placeholder("id") >>,
      << <<"users">>, Placeholder("id"), <<"items">>, Placeholder("idx") >>,
      << <<"items">>, Placeholder("idx") >> }

PathLevels ==
    { [n \in 1..4 |-> IF n = 2 THEN [EmptyLevel EXCEPT !.path = p] ELSE EmptyLevel] : p \in PathTemplates }

InitBuilder ==
    /\ levels \in PathLevels
    /\ icptPolicy = "absent"
    /\ cacheKind = "simple"
    /\ transport = "native"
    /\ now = 1
    /\ cache = <<>>
    /\ registry = NoRegistry
    /\ sweepOn = FALSE
    /\ req = [r \in Reqs |-> NewReq]
    /\ hist = NoHist
    /\ lastOp = NoOp
    /\ client = DefaultClient

NextBuilder ==
    \/ NewBuilder(1)
    \/ PathParams(1)
    \/ Search(1)
    \/ Settings(1)
    \/ Send(1)
    \/ AttemptThrew(1)
    \/ TransportSettle(1)

SpecBuilder == InitBuilder /\ [][NextBuilder]_vars

(***************************************************************************)
(* The client: its constructor and the lookups of endpoints by name.       *)
(***************************************************************************)
InitClient ==
    /\ client = NoClient
    /\ levels = EmptyLevels
    /\ icptPolicy = "absent"
    /\ cacheKind = "simple"
    /\ transport = "native"
    /\ now = 1
    /\ cache = <<>>
    /\ registry = NoRegistry
    /\ sweepOn = FALSE
    /\ req = [r \in Reqs |-> NewReq]
    /\ hist = NoHist
    /\ lastOp = NoOp

NextClient ==
    \/ Construct
    \/ \E r \in Reqs, name \in EndpointNames : CreateRequestBuilder(r, name)

SpecClient == InitClient /\ [][NextClient]_vars

(***************************************************************************)
(* The request body: one request with a body of every kind, on each of the *)
(* transport paths.                                                        *)
(***************************************************************************)
InitBody ==
    /\ levels = EmptyLevels
    /\ icptPolicy = "absent"
    /\ cacheKind = "simple"
    /\ transport \in Transports
    /\ now = 1
    /\ cache = <<>>
    /\ registry = NoRegistry
    /\ sweepOn = FALSE
    /\ req = [r \in Reqs |-> NewReq]
    /\ hist = NoHist
    /\ lastOp = NoOp
    /\ client = DefaultClient

NextBody ==
    \/ NewBuilder(1)
    \/ Body(1)
    \/ Send(1)
    \/ AttemptThrew(1)
    \/ TransportSettle(1)

SpecBody == InitBody /\ [][NextBody]_vars

(***************************************************************************)
(* The request interceptor: requests of a client with a request            *)
(* interceptor, with and without the simple cache.                         *)
(***************************************************************************)
RequestInterceptorLevels ==
    { [n \in 1..4 |-> IF n = 1
                      THEN [EmptyLevel EXCEPT !.requestInterceptor = does,
                                              !.cache = [NoCacheCfg EXCEPT !.enabled = en]]
                      ELSE EmptyLevel] :
        does \in RequestInterceptors, en \in {0, 1} }

InitIntercept ==
    /\ levels \in RequestInterceptorLevels
    /\ icptPolicy = "absent"
    /\ cacheKind = "simple"
    /\ transport = "native"
    /\ now = 1
    /\ cache = <<>>
    /\ registry = NoRegistry
    /\ sweepOn = FALSE
    /\ req = [r \in Reqs |-> NewReq]
    /\ hist = NoHist
    /\ lastOp = NoOp
    /\ client = DefaultClient

NextIntercept ==
    \/ \E r \in Reqs : NewBuilder(r)
    \/ \E r \in Reqs : Send(r)
    \/ \E r \in Reqs : RequestInterceptorSettle(r)
    \/ \E r \in Reqs : ExecuteFetch(r)
    \/ \E r \in Reqs : TransportSettle(r)

SpecIntercept == InitIntercept /\ [][NextIntercept]_vars

(***************************************************************************)
(* The inputs tried on _generateCacheKey.                                   *)
(***************************************************************************)
KeyInputs ==
    [method : {"GET", "POST"}, url : {"u1", "throws"}, body : {"null", "b1", "circular"},
     headers : [KeyHeaderNames -> KeyHeaderValues]]

\* the same request, or one that differs in the value of one header
HeaderVariants(in) ==
    {in} \cup { [in EXCEPT !.headers[n] = v] : n \in KeyHeaderNames, v \in KeyHeaderValues \ {"unset"} }

InitKey ==
    /\ \E a \in KeyInputs : \E b \in HeaderVariants(a) :
          lastOp = [op |-> "generateCacheKey", inputs |-> <<a, b>>, keys |-> <<NoKey, NoKey>>]
    /\ levels = EmptyLevels
    /\ icptPolicy = "absent"
    /\ cacheKind = "simple"
    /\ transport = "native"
    /\ now = 1
    /\ cache = <<>>
    /\ registry = NoRegistry
    /\ sweepOn = FALSE
    /\ req = [r \in Reqs |-> NewReq]
    /\ hist = NoHist
    /\ client = DefaultClient

\* the key of request i is generated
GenerateKey(i) ==
    /\ lastOp.keys[i] = NoKey
    /\ lastOp' = [lastOp EXCEPT !.keys[i] = GenerateCacheKey(lastOp.inputs[i], now)]
    /\ UNCHANGED <<client, levels, icptPolicy, cacheKind, transport, now, cache, registry, sweepOn, req, hist>>

NextKey ==
    \/ \E i \in 1..2 : GenerateKey(i)
    \/ Tick

SpecKey == InitKey /\ [][NextKey]_vars

(***************************************************************************)
(* The configuration of a retry.  A configuration, as far as retry() goes: *)
(* three objects of named values (a name set to "unset" is not in the      *)
(* object), the other fields, and _retryCount.  An overrides object names  *)
(* any of the fields; for a field it does not name the value is "absent".  *)
(***************************************************************************)
ParamNames == {"id"}
ScalarFields == {"timeout", "maxRetries", "_retryCount"}

RetryConfigs ==
    [headers : [HeaderNames -> {"unset", "x"}], pathParams : [ParamNames -> {"x"}],
     searchParams : [ParamNames -> {"unset"}], timeout : {30}, maxRetries : {1, 2}, _retryCount : {0}]

OverrideObjects ==
    [headers : [HeaderNames -> {"unset", "y"}], pathParams : [ParamNames -> {"unset", "y"}],
     searchParams : [ParamNames -> {"unset", "y"}], timeout : {Unset, 5}, maxRetries : {Unset, 2},
     _retryCount : {Unset, 0}]

\* a spread that lets the earlier object win
SpreadObjectKeep(a, b) == [n \in DOMAIN a |-> IF a[n] /= "unset" THEN a[n] ELSE b[n]]

\* { ...a, ...b } for two objects of named values
SpreadObject(a, b) == [n \in DOMAIN a |-> IF b[n] /= "unset" THEN b[n] ELSE a[n]]

\* retryConfig: the spread of originalConfig and overrides, the three merged
\* objects, and the counter, which is written last
RetryConfig(originalConfig, overrides) ==
    [headers |-> SpreadObject(originalConfig.headers, overrides.headers),
     pathParams |-> SpreadObject(originalConfig.pathParams, overrides.pathParams),
     searchParams |-> SpreadObject(originalConfig.searchParams, overrides.searchParams),
     timeout |-> IF overrides.timeout /= Unset THEN overrides.timeout ELSE originalConfig.timeout,
     maxRetries |-> IF overrides.maxRetries /= Unset THEN overrides.maxRetries ELSE originalConfig.maxRetries,
     _retryCount |-> originalConfig._retryCount + 1]

\* retryCount >= maxRetries, with originalConfig.maxRetries || 10
RetryLimitReached(originalConfig) ==
    originalConfig._retryCount >= (IF Truthy(originalConfig.maxRetries) THEN originalConfig.maxRetries
                                   ELSE DefaultMaxRetries)

NoOverrides ==
    [headers |-> [n \in HeaderNames |-> "unset"], pathParams |-> [n \in ParamNames |-> "unset"],
     searchParams |-> [n \in ParamNames |-> "unset"], timeout |-> Unset, maxRetries |-> Unset,
     _retryCount |-> Unset]

InitRetry ==
    /\ \E c \in RetryConfigs :
          lastOp = [op |-> "none", originalConfig |-> c, retryConfig |-> c, overrides |-> NoOverrides]
    /\ levels = EmptyLevels
    /\ icptPolicy = "any"
    /\ cacheKind = "simple"
    /\ transport = "native"
    /\ now = 1
    /\ cache = <<>>
    /\ registry = NoRegistry
    /\ sweepOn = FALSE
    /\ req = [r \in Reqs |-> NewReq]
    /\ hist = NoHist
    /\ client = DefaultClient

\* the error interceptor of the newest attempt calls retry(overrides):
\* originalConfig is that attempt's configuration as the call leaves it
Retry ==
    /\ lastOp.retryConfig._retryCount < MaxRetryCalls
    /\ \E overrides \in OverrideObjects :
          LET originalConfig == lastOp.retryConfig IN
          lastOp' = IF RetryLimitReached(originalConfig)
                    THEN [op |-> "undefined", originalConfig |-> originalConfig,
                          retryConfig |-> originalConfig, overrides |-> NoOverrides]
                    ELSE [op |-> "retry", originalConfig |-> originalConfig,
                          retryConfig |-> RetryConfig(originalConfig, overrides), overrides |-> overrides]
    /\ UNCHANGED <<client, levels, icptPolicy, cacheKind, transport, now, cache, registry, sweepOn, req, hist>>

NextRetry == Retry

SpecRetry == InitRetry /\ [][NextRetry]_vars

(***************************************************************************)
(* The steps of an attempt: requests of a client with or without a request *)
(* interceptor, a response interceptor and the simple cache, on the fetch  *)
(* and on the XHR path, their steps traced.                                *)
(***************************************************************************)
StepLevels ==
    { [n \in 1..4 |-> IF n = 1
                      THEN [EmptyLevel EXCEPT !.requestInterceptor = before, !.responseInterceptor = after,
                                              !.cache.enabled = en]
                      ELSE EmptyLevel] :
        before \in {"absent", "passes", "throwsError"}, after \in {"absent"} \cup ResponseInterceptors,
        en \in {0, 1} }

InitSteps ==
    /\ levels \in StepLevels
    /\ icptPolicy = "absent"
    /\ cacheKind = "simple"
    /\ transport \in {"native", "xhr"}
    /\ now = 1
    /\ cache = <<>>
    /\ registry = NoRegistry
    /\ sweepOn = FALSE
    /\ req = [r \in Reqs |-> [NewReq EXCEPT !.steps = <<>>]]
    /\ hist = NoHist
    /\ lastOp = NoOp
    /\ client = DefaultClient

NextSteps ==
    \/ \E r \in Reqs : NewBuilder(r)
    \/ \E r \in Reqs : Send(r)
    \/ \E r \in Reqs : RequestInterceptorSettle(r)
    \/ \E r \in Reqs : ExecuteFetch(r)
    \/ \E r \in Reqs : TransportSettle(r)

SpecSteps == InitSteps /\ [][NextSteps]_vars

(***************************************************************************)
(* Statistics: a client with caching enabled, its cache the SimpleCache    *)
(* that _normalizeConfig makes or one the caller made with enableStats.    *)
(***************************************************************************)
CacheInstances == {"unset", "withStats"}

\* Vortex.getCacheStats
GetCacheStats == CacheStats(client.cacheInstance, cache)

InitStats ==
    /\ \E inst \in CacheInstances :
          /\ levels = [n \in 1..4 |->
                         IF n = 1 THEN [EmptyLevel EXCEPT !.cache.enabled = 1, !.cache.instance = inst]
                         ELSE EmptyLevel]
          /\ client = [DefaultClient EXCEPT !.cacheInstance = NewSimpleCache(inst = "withStats")]
    /\ icptPolicy = "absent"
    /\ cacheKind = "simple"
    /\ transport = "native"
    /\ now = 1
    /\ cache = <<>>
    /\ registry = NoRegistry
    /\ sweepOn = FALSE
    /\ req = [r \in Reqs |-> NewReq]
    /\ hist = NoHist
    /\ lastOp = NoOp

NextStats ==
    \/ \E r \in Reqs : NewBuilder(r)
    \/ \E r \in Reqs : Send(r)
    \/ \E r \in Reqs : ExecuteFetch(r)
    \/ \E r \in Reqs : TransportSettle(r)

SpecStats == InitStats /\ [][NextStats]_vars

(***************************************************************************)
(* Caching switched on at one of the client, endpoint and method levels    *)
(* and, in half of the behaviours, switched off again for the request with *)
(* settings({ cache: { enabled: false } }); the cache is empty or holds    *)
(* the fresh answer to an earlier request.                                 *)
(***************************************************************************)
FreshReqs == {1, 2}

FreshLevels ==
    { [n \in 1..4 |-> IF n = on THEN [EmptyLevel EXCEPT !.cache.enabled = 1, !.cache.strategy = st]
                      ELSE IF n = 4 THEN [EmptyLevel EXCEPT !.cache.enabled = off]
                      ELSE EmptyLevel] :
        on \in 1..3, st \in {"simple", "swr"}, off \in {Unset, 0} }

StoredEarlier == CacheSet(<<>>, 1, Val("d2"), DefaultTtl, 1)

InitFresh ==
    /\ client = DefaultClient
    /\ levels \in FreshLevels
    /\ icptPolicy = "absent"
    /\ cacheKind \in {"simple", "faulty"}
    /\ transport = "native"
    /\ now = 1
    /\ cache \in {<<>>, StoredEarlier}
    /\ registry = NoRegistry
    /\ sweepOn = FALSE
    /\ req = [r \in Reqs |-> NewReq]
    /\ hist = IF cache = <<>> THEN NoHist
              ELSE [NoHist EXCEPT !.stored[1] = [until |-> 1 + DefaultTtl, val |-> Val("d2")]]
    /\ lastOp = NoOp

NextFresh ==
    \/ \E r \in FreshReqs : NewBuilder(r)
    \/ \E r \in FreshReqs : Send(r)
    \/ \E r \in FreshReqs : ExecuteFetch(r)
    \/ \E r \in FreshReqs : SwrContinue(r)
    \/ \E r \in FreshReqs : TransportSettle(r)
    \/ \E r \in FreshReqs : RevalidateSettle(r)
    \/ \E r \in FreshReqs : AwaitRevalidation(r)

SpecFresh == InitFresh /\ [][NextFresh]_vars

(***************************************************************************)
(* Specification of the stale-while-revalidate strategy: several requests  *)
(* of one client, the registry and destroy(), within one unit of time.     *)
(***************************************************************************)
CacheLevels(strategies, ttls) ==
    { [n \in 1..4 |-> IF n = 1
                      THEN [EmptyLevel EXCEPT !.cache = [enabled |-> 1, strategy |-> st, ttl |-> ttl, instance |-> "unset"]]
                      ELSE EmptyLevel] :
        st \in strategies, ttl \in ttls }

InitSwr ==
    /\ levels \in CacheLevels({"swr"}, {Unset})
    /\ icptPolicy = "absent"
    /\ cacheKind = "faulty"
    /\ transport = "native"
    /\ now = 1
    /\ cache = <<>>
    /\ registry = NoRegistry
    /\ sweepOn = FALSE
    /\ req = [r \in Reqs |-> NewReq]
    /\ hist = NoHist
    /\ lastOp = NoOp
    /\ client = DefaultClient

NextSwr ==
    \/ \E r \in Reqs : NewBuilder(r)
    \/ \E r \in Reqs : Send(r)
    \/ \E r \in Reqs : SwrContinue(r)
    \/ \E r \in Reqs : TransportSettle(r)
    \/ \E r \in Reqs : RevalidateSettle(r)
    \/ \E r \in Reqs : AwaitRevalidation(r)
    \/ Destroy

SpecSwr == InitSwr /\ [][NextSwr]_vars

(***************************************************************************)
(* destroy() among swr requests of a client with a cache instance of its   *)
(* own.                                                                    *)
(***************************************************************************)
NextDestroy ==
    \/ \E r \in Reqs : NewBuilder(r)
    \/ \E r \in Reqs : Send(r)
    \/ \E r \in Reqs : SwrContinue(r)
    \/ \E r \in Reqs : TransportSettle(r)
    \/ \E r \in Reqs : RevalidateSettle(r)
    \/ \E r \in Reqs : AwaitRevalidation(r)
    \/ DestroyWatched

SpecDestroy == InitSwr /\ [][NextDestroy]_vars

(***************************************************************************)
(* The same with the clock running: cache entries expire, registry entries *)
(* age and the sweep timer fires.                                          *)
(***************************************************************************)
NextSweep ==
    \/ \E r \in Reqs : NewBuilder(r)
    \/ \E r \in Reqs : Send(r)
    \/ \E r \in Reqs : SwrContinue(r)
    \/ \E r \in Reqs : TransportSettle(r)
    \/ \E r \in Reqs : RevalidateSettle(r)
    \/ \E r \in Reqs : AwaitRevalidation(r)
    \/ Sweep
    \/ Destroy
    \/ Tick

SpecSweep == InitSwr /\ [][NextSweep]_vars

(***************************************************************************)
(* The registry over time: two requests under the swr strategy, the clock  *)
(* and the sweep timer.  The timer fires as long as it runs, and the steps *)
(* of the library that wait for nothing are taken; a transport may leave   *)
(* a request unanswered for ever.                                          *)
(***************************************************************************)
InitRegistry ==
    /\ levels \in CacheLevels({"swr"}, {Unset})
    /\ icptPolicy = "absent"
    /\ cacheKind = "simple"
    /\ transport = "native"
    /\ now = 1
    /\ cache = <<>>
    /\ registry = NoRegistry
    /\ sweepOn = FALSE
    /\ req = [r \in Reqs |-> NewReq]
    /\ hist = NoHist
    /\ lastOp = NoOp
    /\ client = DefaultClient

\* the answers of the transport: a value, or a failure
RegistryAnswers == {"d1", "fail"}

NextRegistry ==
    \/ \E r \in FreshReqs : NewBuilder(r)
    \/ \E r \in FreshReqs : Send(r)
    \/ \E r \in FreshReqs : SwrContinue(r)
    \/ \E r \in FreshReqs : TransportSettleOn(r, RegistryAnswers)
    \/ \E r \in FreshReqs : RevalidateSettle(r)
    \/ \E r \in FreshReqs : AwaitRevalidation(r)
    \/ Sweep
    \/ Tick

SpecRegistry ==
    /\ InitRegistry
    /\ [][NextRegistry]_vars
    /\ WF_vars(Sweep)
    /\ \A r \in FreshReqs : WF_vars(SwrContinue(r)) /\ WF_vars(RevalidateSettle(r))

(***************************************************************************)
(* The registry and its timer: the same two requests, the sweep whenever   *)
(* the timer is on, and destroy() at any moment.                           *)
(***************************************************************************)
NextTimer ==
    \/ \E r \in FreshReqs : NewBuilder(r)
    \/ \E r \in FreshReqs : Send(r)
    \/ \E r \in FreshReqs : SwrContinue(r)
    \/ \E r \in FreshReqs : TransportSettleOn(r, RegistryAnswers)
    \/ \E r \in FreshReqs : RevalidateSettle(r)
    \/ \E r \in FreshReqs : AwaitRevalidation(r)
    \/ Sweep
    \/ Destroy
    \/ Tick

SpecTimer == InitRegistry /\ [][NextTimer]_vars

(***************************************************************************)
(* Specification of the simple cache strategy: several requests of one     *)
(* client with caching enabled.                                            *)
(***************************************************************************)
\* the ttl settings tried: none (the default applies) and two units
TtlVals == {Unset, 2}

InitSimple ==
    /\ levels \in CacheLevels({"simple"}, TtlVals)
    /\ icptPolicy = "absent"
    /\ cacheKind \in {"simple", "faulty"}
    /\ transport = "native"
    /\ now = 1
    /\ cache = <<>>
    /\ registry = NoRegistry
    /\ sweepOn = FALSE
    /\ req = [r \in Reqs |-> NewReq]
    /\ hist = NoHist
    /\ lastOp = NoOp
    /\ client = DefaultClient

NextSimple ==
    \/ \E r \in Reqs : NewBuilder(r)
    \/ \E r \in Reqs : Send(r)
    \/ \E r \in Reqs : ExecuteFetch(r)
    \/ \E r \in Reqs : TransportSettle(r)
    \/ Tick

SpecSimple == InitSimple /\ [][NextSimple]_vars

(***************************************************************************)
(* Specification of SimpleCache on its own: direct calls and the clock.    *)
(***************************************************************************)
InitCache ==
    /\ levels = EmptyLevels
    /\ icptPolicy = "absent"
    /\ cacheKind = "simple"
    /\ transport = "native"
    /\ now = 1
    /\ cache = <<>>
    /\ registry = NoRegistry
    /\ sweepOn = FALSE
    /\ req = [r \in Reqs |-> NewReq]
    /\ hist = NoHist
    /\ lastOp = NoOp
    /\ client = DefaultClient

NextCache ==
    \/ \E k \in CacheKeys : CacheOpSet(k)
    \/ \E k \in CacheKeys : CacheOpGet(k)
    \/ \E k \in CacheKeys : CacheOpHas(k)
    \/ \E k \in CacheKeys : CacheOpDelete(k)
    \/ CacheOpClear
    \/ CacheOpCleanup
    \/ Tick

SpecCache == InitCache /\ [][NextCache]_vars

(***************************************************************************)
(* Specification of a SimpleCache made with a maxSize of its own.          *)
(***************************************************************************)
MaxSizes == {1, 2}
SizedKeys == {1, 2, 3}

InitSized ==
    /\ levels = EmptyLevels
    /\ icptPolicy = "absent"
    /\ cacheKind = "simple"
    /\ transport = "native"
    /\ now = MaxCacheTime - 2
    /\ cache = <<>>
    /\ registry = NoRegistry
    /\ sweepOn = FALSE
    /\ req = [r \in Reqs |-> NewReq]
    /\ hist = NoHist
    /\ lastOp = NoOp
    /\ \E maxSize \in MaxSizes : client = [DefaultClient EXCEPT !.cacheInstance.maxSize = maxSize]

NextSized ==
    \/ \E k \in SizedKeys : CacheOpSet(k)
    \/ \E k \in SizedKeys : CacheOpGet(k)
    \/ \E k \in SizedKeys : CacheOpHas(k)
    \/ \E k \in SizedKeys : CacheOpDelete(k)
    \/ CacheOpClear
    \/ CacheOpCleanup
    \/ Tick

SpecSized == InitSized /\ [][NextSized]_vars

(***************************************************************************)
(* Two requests of a client that caches, under either strategy, and has a  *)
(* response mapper or none.                                                *)
(***************************************************************************)
MappedLevels ==
    { [n \in 1..4 |-> IF n = 1
                      THEN [EmptyLevel EXCEPT !.cache.enabled = 1, !.cache.strategy = st, !.responseMapper = m]
                      ELSE EmptyLevel] :
        st \in {"simple", "swr"}, m \in {<<>>, <<"tag">>} }

InitMapped ==
    /\ levels \in MappedLevels
    /\ icptPolicy = "absent"
    /\ cacheKind = "simple"
    /\ transport = "native"
    /\ now = 1
    /\ cache = <<>>
    /\ registry = NoRegistry
    /\ sweepOn = FALSE
    /\ req = [r \in Reqs |-> NewReq]
    /\ hist = NoHist
    /\ lastOp = NoOp
    /\ client = DefaultClient

NextMapped ==
    \/ \E r \in FreshReqs : NewBuilder(r)
    \/ \E r \in FreshReqs : Send(r)
    \/ \E r \in FreshReqs : ExecuteFetch(r)
    \/ \E r \in FreshReqs : SwrContinue(r)
    \/ \E r \in FreshReqs : TransportSettleOn(r, RegistryAnswers)
    \/ \E r \in FreshReqs : RevalidateSettle(r)
    \/ \E r \in FreshReqs : AwaitRevalidation(r)

SpecMapped == InitMapped /\ [][NextMapped]_vars

(***************************************************************************)
(* Two requests of a client that caches, under either strategy, and has a  *)
(* request interceptor that returns the config as it is or with an         *)
(* authorization header set.                                               *)
(***************************************************************************)
KeyedLevels ==
    { [n \in 1..4 |-> IF n = 1
                      THEN [EmptyLevel EXCEPT !.cache.enabled = 1, !.cache.strategy = st,
                                              !.requestInterceptor = does]
                      ELSE EmptyLevel] :
        st \in {"simple", "swr"}, does \in {"passes", "setsAuthorization"} }

InitKeyed ==
    /\ levels \in KeyedLevels
    /\ icptPolicy = "absent"
    /\ cacheKind = "simple"
    /\ transport = "native"
    /\ now = 1
    /\ cache = <<>>
    /\ registry = NoRegistry
    /\ sweepOn = FALSE
    /\ req = [r \in Reqs |-> NewReq]
    /\ hist = NoHist
    /\ lastOp = NoOp
    /\ client = DefaultClient

NextKeyed ==
    \/ \E r \in FreshReqs : NewBuilder(r)
    \/ \E r \in FreshReqs : Send(r)
    \/ \E r \in FreshReqs : RequestInterceptorSettle(r)
    \/ \E r \in FreshReqs : ExecuteFetch(r)
    \/ \E r \in FreshReqs : SwrContinue(r)
    \/ \E r \in FreshReqs : TransportSettleOn(r, RegistryAnswers)
    \/ \E r \in FreshReqs : RevalidateSettle(r)
    \/ \E r \in FreshReqs : AwaitRevalidation(r)

SpecKeyed == InitKeyed /\ [][NextKeyed]_vars

(***************************************************************************)
(* Properties of the retry coordinator and the error pipeline.             *)
(***************************************************************************)
Settled(q) == q.bst \in {"resolved", "rejected"}
Sent(q) == q.bst \notin {"none", "built"}

\* C1: with resolved maxRetries = N >= 1, a transport that always fails and
\* an interceptor that calls retry() once on every attempt, one send() calls
\* the transport exactly N + 1 times, its last retry() call (the N + 1st)
\* returns undefined without a transport call, and send() rejects.
C1_RetryBudgetExact ==
    \A r \in Reqs :
        LET q == req[r] IN
        (icptPolicy = "once" /\ Settled(q) /\ q.okCalls = 0 /\ q.cfg.maxRetries >= 1)
            => /\ q.bst = "rejected"
               /\ q.tcalls = q.cfg.maxRetries + 1
               /\ q.retryCalls = q.cfg.maxRetries + 1
               /\ q.retryStarted = q.cfg.maxRetries
               /\ q.lastUndef

C1_Witness ==
    \E r \in Reqs :
        /\ icptPolicy = "once" /\ req[r].bst = "rejected" /\ req[r].okCalls = 0
        /\ req[r].cfg.maxRetries = 2 /\ req[r].tcalls = 3 /\ req[r].lastUndef

\* the setting of the most specific level that sets maxRetries
MostSpecificMaxRetries ==
    IF levels[4].maxRetries /= Unset THEN levels[4].maxRetries
    ELSE IF levels[3].maxRetries /= Unset THEN levels[3].maxRetries
    ELSE IF levels[2].maxRetries /= Unset THEN levels[2].maxRetries
    ELSE levels[1].maxRetries

\* C2: an explicit maxRetries: 0 at the most specific configured level is
\* honored: the resolved maxRetries is 0, no retry() call starts an attempt
\* and the transport is called at most once per send().
C2_ZeroMaxRetriesHonored ==
    \A r \in Reqs :
        (Sent(req[r]) /\ MostSpecificMaxRetries = 0)
            => /\ req[r].cfg.maxRetries = 0
               /\ req[r].retryStarted = 0
               /\ req[r].tcalls <= 1

\* C3: the retry budget is per logical request: whatever the interceptor
\* does (short of overriding maxRetries), the attempts retry() starts during
\* one send() never exceed the resolved maxRetries, so the transport is
\* called at most maxRetries + 1 times.
C3_RetryBudgetPerRequest ==
    \A r \in Reqs :
        Sent(req[r]) => /\ req[r].retryStarted <= req[r].cfg.maxRetries
                        /\ req[r].tcalls <= req[r].cfg.maxRetries + 1

\* C4: the library never retries unprompted: a send() outside the swr
\* strategy whose interceptor is absent or never calls retry() calls the
\* transport at most once.
C4_NoUnpromptedRetry ==
    \A r \in Reqs :
        (req[r].retryCalls = 0 /\ ~(req[r].cfg.cache.enabled /\ req[r].cfg.cache.strategy = "swr"))
            => req[r].tcalls <= 1

C4_Witness ==
    \E r \in Reqs :
        /\ icptPolicy = "any" /\ req[r].bst = "rejected"
        /\ req[r].retryCalls = 0 /\ req[r].tcalls = 1

\* the levels whose error-mapper stages are enabled for the request, in order
EnabledErrorPipeline ==
    IF \E n \in 1..4 : levels[n].disableMappers \/ levels[n].disableErrorMapper
    THEN <<>>
    ELSE LET st == CollectFrom(levels, TRUE, "error", 1, <<>>)
         IN [i \in 1..Len(st) |-> st[i].level]

EndsWith(s, t) ==
    /\ Len(t) <= Len(s)
    /\ SubSeq(s, Len(s) - Len(t) + 1, Len(s)) = t

\* C10: whenever send() rejects, the error delivered to the caller has been
\* passed through the enabled error-mapper pipeline, and onError was invoked
\* with that same error before the rejection reached the caller.
C10_RejectionMappedAndReported ==
    \A r \in Reqs :
        req[r].bst = "rejected"
            => /\ EndsWith(req[r].out.err.trail, EnabledErrorPipeline)
               /\ req[r].onErrorN >= 1
               /\ req[r].onErrorLast = req[r].out.err

\* C11: when the error interceptor returns a value other than undefined, no
\* onError and no onSuccess is invoked for that attempt, onFinally runs once
\* for it, and when the attempt is the first one of the send(), send() resolves
\* with exactly the returned value, no response mapper applied.
C11_RecoveryReturnedAsIs ==
    [][\A r \in Reqs :
          req'[r].recoverN > req[r].recoverN
              => /\ req'[r].onErrorN = req[r].onErrorN
                 /\ req'[r].onSuccessN = req[r].onSuccessN
                 /\ req'[r].onFinallyN = req[r].onFinallyN + 1
                 /\ Len(req[r].stack) = 1
                       => /\ req'[r].bst = "resolved"
                          /\ req'[r].out = req'[r].icptTop]_vars

C11_Witness ==
    \E r \in Reqs :
        /\ levels[1].responseMapper /= <<>>
        /\ req[r].bst = "resolved" /\ req[r].recoverN >= 1
        /\ req[r].icptTop = ValRes(Val("rec")) /\ req[r].out = req[r].icptTop
        /\ req[r].onFinallyN >= 1 /\ req[r].onSuccessN = 0

\* C12: every rejection of send() carries a VortexError of one of the eight
\* kinds, whatever the transport and the error interceptor do (an interceptor
\* that throws null or undefined included).
C12_RejectionsClassified ==
    \A r \in Reqs :
        req[r].bst = "rejected" => req[r].out.err.kind \in VortexKinds

\* C13: once onFinally has been invoked within a send(), no onSuccess and no
\* onError callback of that send() is invoked afterwards.
C13_OnFinallyLast ==
    [][\A r \in Reqs :
          req[r].onFinallyN > 0
              => /\ req'[r].onSuccessN = req[r].onSuccessN
                 /\ req'[r].onErrorN = req[r].onErrorN]_vars

\* C14: for a send() that reached execution and settled, onStart was invoked
\* exactly once, onFinally exactly once, and onSuccess and onError together
\* at most once, whatever the number of retries.
C14_CallbacksOncePerSend ==
    \A r \in Reqs :
        Settled(req[r])
            => /\ req[r].onStartN = 1
               /\ req[r].onFinallyN = 1
               /\ req[r].onSuccessN + req[r].onErrorN <= 1

(***************************************************************************)
(* Properties of the configuration cascade and of the mapper pipeline.     *)
(***************************************************************************)
\* the timeout of the most specific level that sets one, else the default
MostSpecificTimeout ==
    IF levels[4].timeout /= Unset THEN levels[4].timeout
    ELSE IF levels[3].timeout /= Unset THEN levels[3].timeout
    ELSE IF levels[2].timeout /= Unset THEN levels[2].timeout
    ELSE IF levels[1].timeout /= Unset THEN levels[1].timeout
    ELSE DefaultTimeout

\* the validator of the most specific level that sets one, else the default
CallerValidator ==
    IF levels[4].validateStatus /= "unset" THEN levels[4].validateStatus
    ELSE IF levels[3].validateStatus /= "unset" THEN levels[3].validateStatus
    ELSE IF levels[2].validateStatus /= "unset" THEN levels[2].validateStatus
    ELSE IF levels[1].validateStatus /= "unset" THEN levels[1].validateStatus
    ELSE "2xx"

\* C17: the resolved value of a scalar setting (timeout, validateStatus) is
\* the one set at the most specific level that sets it, in the order request,
\* method, endpoint, client, built-in default.
C17_ScalarMostSpecificWins ==
    \A r \in Reqs :
        Sent(req[r]) => /\ req[r].cfg.timeout = MostSpecificTimeout
                        /\ req[r].cfg.validateStatus = CallerValidator

C17_Witness ==
    \E r \in Reqs :
        /\ Sent(req[r])
        /\ \A n \in 1..3 : levels[n].timeout > 0
        /\ levels[4].timeout = 0
        /\ req[r].cfg.timeout = 0

\* the most specific level that sets sub-field f of the cache block, 0 if none
SetsCacheField(n, f) ==
    CASE f = "enabled" -> levels[n].cache.enabled /= Unset
      [] f = "ttl" -> levels[n].cache.ttl /= Unset
      [] f = "strategy" -> levels[n].cache.strategy /= "unset"
      [] OTHER -> levels[n].cache.instance /= "unset"

TopLevelSetting(f) ==
    IF \E n \in 1..4 : SetsCacheField(n, f)
    THEN CHOOSE n \in 1..4 : SetsCacheField(n, f) /\ \A m \in (n + 1)..4 : ~SetsCacheField(m, f)
    ELSE 0

TopLevelWithHeader(h) ==
    IF \E n \in 1..4 : levels[n].headers[h] /= "unset"
    THEN CHOOSE n \in 1..4 : levels[n].headers[h] /= "unset"
                              /\ \A m \in (n + 1)..4 : levels[m].headers[h] = "unset"
    ELSE 0

\* C18: the effective headers and the effective cache block take every key
\* and every sub-field (enabled, strategy, ttl, instance) from the most
\* specific level that sets it; a level that sets only some of them erases
\* none of those set at less specific levels.
C18_StructuralMerge ==
    \A r \in Reqs :
        Sent(req[r])
            => LET c == req[r].cfg.cache
                   e == TopLevelSetting("enabled")
                   t == TopLevelSetting("ttl")
                   s == TopLevelSetting("strategy")
                   i == TopLevelSetting("instance")
               IN /\ c.enabled = (e /= 0 /\ levels[e].cache.enabled = 1)
                  /\ c.ttl = IF t = 0 THEN DefaultTtl ELSE levels[t].cache.ttl
                  /\ c.strategy = IF s = 0 THEN "simple" ELSE levels[s].cache.strategy
                  /\ c.instance = IF i = 0 THEN "default" ELSE levels[i].cache.instance
                  /\ \A h \in HeaderNames :
                        req[r].cfg.headers[h] = IF TopLevelWithHeader(h) = 0 THEN "unset"
                                                ELSE levels[TopLevelWithHeader(h)].headers[h]

RECURSIVE ExpectedPipelineFrom(_, _)
ExpectedPipelineFrom(n, type) ==
    IF n > 4 THEN <<>>
    ELSE (IF MapperField(levels[n], type) /= <<>> /\ \A m \in (n + 1)..4 : levels[m].inheritMappers
          THEN <<LevelNames[n]>> ELSE <<>>) \o ExpectedPipelineFrom(n + 1, type)

\* C20: the pipeline applied to the response (to the error) of a request is
\* made of the mappers of the levels in the order client, endpoint, method,
\* request, without those of any level below a level whose inheritMappers is
\* false, whether or not that level has a mapper of its own.
C20_InheritMappersResets ==
    \A r \in Reqs :
        LET q == req[r] IN
        /\ q.bst = "resolved" => q.out.val.trail = ExpectedPipelineFrom(1, "response")
        /\ q.bst = "rejected" => q.out.err.trail = ExpectedPipelineFrom(1, "error")

C20_Witness ==
    \E r \in Reqs :
        /\ levels[1].responseMapper /= <<>> /\ levels[4].responseMapper /= <<>>
        /\ levels[3].responseMapper = <<>> /\ ~levels[3].inheritMappers
        /\ levels[2].inheritMappers /\ levels[4].inheritMappers
        /\ req[r].bst = "resolved" /\ req[r].out.val.trail = <<"request">>

\* the marks the stages of one level leave: one per stage that returns a value
RECURSIVE MarksOf(_, _, _)
MarksOf(does, name, i) ==
    IF i > Len(does) THEN <<>>
    ELSE (IF does[i] = "tag" THEN <<name>> ELSE <<>>) \o MarksOf(does, name, i + 1)

ExpectedMarks(type) ==
    MarksOf(MapperField(levels[1], type), "client", 1) \o MarksOf(MapperField(levels[2], type), "endpoint", 1)
        \o MarksOf(MapperField(levels[3], type), "method", 1) \o MarksOf(MapperField(levels[4], type), "request", 1)

NoDisableFlag ==
    \A n \in 1..4 : ~levels[n].disableMappers /\ ~levels[n].disableResponseMapper /\ ~levels[n].disableErrorMapper

\* C21: the stages are applied in declaration order to the current value; a
\* stage that returns undefined or throws leaves the value as it is and the
\* later stages still run, so the request succeeds or fails as the response
\* decides and its value (error) carries the marks of all the other stages.
C21_ThrowingStageSkipped ==
    \A r \in Reqs :
        LET q == req[r] IN
        (Settled(q) /\ NoDisableFlag)
            => /\ (q.bst = "resolved") = (q.lastStatus \in {200, 204})
               /\ q.bst = "resolved" => q.out.val.trail = ExpectedMarks("response")
               /\ q.bst = "rejected" => q.out.err.trail = ExpectedMarks("error")

C21_Witness ==
    \E r \in Reqs :
        /\ levels[4].responseMapper = <<"tag", "throw", "tag">>
        /\ levels[1].responseMapper = <<"tag">> /\ levels[2].responseMapper = <<"throw">>
        /\ levels[3].responseMapper = <<"undef">>
        /\ req[r].bst = "resolved"
        /\ req[r].out.val.trail = <<"client", "request", "request">>

\* C22: disableMappers true at any level leaves the value and the error
\* unmapped; disableResponseMapper true at any level leaves only the value
\* unmapped, disableErrorMapper true at any level only the error.
C22_DisableFlags ==
    \A r \in Reqs :
        LET q == req[r]
            all == \E n \in 1..4 : levels[n].disableMappers
            resp == \E n \in 1..4 : levels[n].disableResponseMapper
            err == \E n \in 1..4 : levels[n].disableErrorMapper
        IN /\ q.bst = "resolved"
                => q.out.val.trail = IF all \/ resp THEN <<>> ELSE ExpectedMarks("response")
           /\ q.bst = "rejected"
                => q.out.err.trail = IF all \/ err THEN <<>> ELSE ExpectedMarks("error")

C22_Witness ==
    \E r \in Reqs :
        /\ levels[2].disableResponseMapper /\ \A n \in 1..4 : ~levels[n].disableMappers /\ ~levels[n].disableErrorMapper
        /\ levels[1].errorMapper /= <<>> /\ levels[1].responseMapper /= <<>>
        /\ \/ req[r].bst = "resolved" /\ req[r].out.val.trail = <<>>
           \/ req[r].bst = "rejected" /\ req[r].out.err.trail = <<"client", "request">>

\* the keys of the entries
KeysOf(entries) == { entries[i].k : i \in 1..Len(entries) }
ValueOf(entries, k) == entries[EntryIndex(entries, k, 1)].v
SeqRange(sq) == { sq[i] : i \in 1..Len(sq) }

\* the names a path declares
TemplateNames(path) == { name \in {"id", "idx"} : \E n \in 1..Len(path) : path[n] = Placeholder(name) }

\* the path with each placeholder replaced by the encoded value of the
\* parameter of exactly its name
ExactSubstitution(path, params) ==
    [n \in 1..Len(path) |->
        IF \E name \in KeysOf(params) : path[n] = Placeholder(name)
        THEN LET name == CHOOSE k \in KeysOf(params) : path[n] = Placeholder(k)
             IN EncodeURIComponent(Chars(ValueOf(params, name)))
        ELSE path[n]]

\* C23: for every placeholder of the path whose name is no key of the
\* supplied pathParams, send() rejects with a VALIDATION error that lists the
\* name among the missing parameters and the transport is never called; a
\* supplied parameter replaces only the placeholder of exactly its name, by
\* its URL-encoded value.
C23_MissingPathParamRejected ==
    LET q == req[1]
        unsupplied == TemplateNames(levels[2].path) \ KeysOf(q.pathParams)
    IN /\ unsupplied /= {} =>
            /\ q.tcalls = 0
            /\ Settled(q) =>
                  /\ q.out.tag = "err" /\ q.out.err.kind = "VALIDATION"
                  /\ \A name \in unsupplied : Chars(name) \in SeqRange(q.missing)
       /\ q.tcalls > 0 => q.url.pathname = ExactSubstitution(levels[2].path, q.pathParams)

\* C24: only a plain-object body is serialized to JSON before the transport
\* is called; a FormData, URLSearchParams, Blob, ArrayBuffer, typed-array or
\* string body reaches the transport unchanged, on both transport paths.
C24_OnlyPlainObjectSerialized ==
    LET q == req[1] IN
    q.tcalls > 0 =>
        /\ q.sent.body = q.body
        /\ q.sent.json <=> q.body = "plain"

\* C25: a request interceptor that returns null or undefined, or that
\* throws, makes send() fail with a CONFIG error, and in that attempt neither
\* the cache nor the transport is contacted.
C25_RequestInterceptorFailureIsConfig ==
    \A r \in Reqs :
        LET q == req[r] IN
        (Sent(q) /\ q.cfg.requestInterceptor \notin {"absent", "passes"}) =>
            /\ q.tcalls = 0 /\ ~q.cacheGet /\ ~q.cacheSet
            /\ Settled(q) => (q.out.tag = "err" /\ q.out.err.kind = "CONFIG")

\* the server gave both requests the same answer, each in its only transport call
SameAnswer(a, b) == a.tcalls = 1 /\ b.tcalls = 1 /\ a.lastStatus = b.lastStatus

\* C26: best-effort steps never change the outcome of a request: if the
\* cache get or set throws, or a lifecycle callback throws, send() settles
\* with the same value or the same error as it would if that step had not
\* thrown.  Here: of two requests that the server answers alike, one whose
\* cache get threw and one whose cache get found nothing, both settle alike.
C26_BestEffortStepsKeepOutcome ==
    \A r1, r2 \in Reqs :
        LET a == req[r1]
            b == req[r2]
        IN (/\ Settled(a) /\ Settled(b)
            /\ a.stale.tag = "err" /\ b.stale = ValRes(Null)
            /\ SameAnswer(a, b))
           => /\ a.out.tag = b.out.tag
              /\ a.out.err.kind = b.out.err.kind
              /\ a.out.val = b.out.val \/ a.lastStatus = 200

\* C27: calling the client's destroy() any number of times raises no error,
\* and after each call has resolved the in-flight registry and the client's
\* cache are empty, also when requests or swr refreshes were in flight at
\* the time of the call (until the next send()).
C27_DestroyLeavesEmpty ==
    hist.destroyed => (cache = <<>> /\ registry = NoRegistry)

\* result holds the entries of old with those of new laid over them
Merged(old, new, result) ==
    /\ KeysOf(result) = KeysOf(old) \cup KeysOf(new)
    /\ Len(result) = Cardinality(KeysOf(result))
    /\ \A k \in KeysOf(result) :
          ValueOf(result, k) = IF k \in KeysOf(new) THEN ValueOf(new, k) ELSE ValueOf(old, k)

\* the value of setting k after an object with these entries was laid over old
SettingOf(entries, k, old) == IF k \in KeysOf(entries) THEN ValueOf(entries, k) ELSE old

\* what one call of pathParams(), search() or settings() on builder 1 does
C28_Call ==
    LET q == req[1]
        q2 == req'[1]
        fn == q2.lastCall.fn
        arg == q2.lastCall.arg
    IN q2.bcalls = q.bcalls + 1 =>
          /\ fn \in {"pathParams", "search", "settings"}
          /\ (arg.kind \in {"string", "number", "array"}) =>
                /\ q2.thrown.kind = "VALIDATION"
                /\ q2.pathParams = q.pathParams /\ q2.searchParams = q.searchParams /\ levels' = levels
          /\ (arg.kind \in {"null", "undefined"}) =>
                /\ q2.thrown = NoErr
                /\ q2.pathParams = q.pathParams /\ q2.searchParams = q.searchParams /\ levels' = levels
          /\ (arg.kind = "object") =>
                /\ q2.thrown = NoErr
                /\ IF fn = "pathParams" THEN Merged(q.pathParams, arg.entries, q2.pathParams)
                   ELSE q2.pathParams = q.pathParams
                /\ IF fn = "search" THEN Merged(q.searchParams, arg.entries, q2.searchParams)
                   ELSE q2.searchParams = q.searchParams
                /\ IF fn = "settings"
                   THEN levels' = [levels EXCEPT
                                      ![4].timeout = SettingOf(arg.entries, "timeout", @),
                                      ![4].maxRetries = SettingOf(arg.entries, "maxRetries", @)]
                   ELSE levels' = levels

\* C28: pathParams(), search() and settings() called with a non-object or
\* an array throw a VALIDATION error synchronously and leave what the
\* builder has accumulated unchanged; called with null or undefined they do
\* nothing; successive valid calls merge, a later call overriding the keys
\* it names.
C28_SettersValidateAndMerge == [][C28_Call]_vars

\* a call with an array that threw after an earlier call had been merged
C28_Witness ==
    /\ req[1].bcalls = 2
    /\ req[1].lastCall.arg.kind = "array"
    /\ req[1].thrown.kind = "VALIDATION"
    /\ req[1].pathParams = <<Entry("idx", "7"), Entry("id", "5")>>

\* the config lacks a baseURL, lacks endpoints, or has an endpoint without a non-empty path string
Misconfigured(config) ==
    \/ config.baseURL \in {"undefined", "null"}
    \/ config.endpoints \in {"undefined", "null"}
    \/ \E n \in ConfiguredNames : config.entries[n] \in {"noPath", "emptyPath", "numberPath"}

\* C29: configuration misuse is reported synchronously with a CONFIG error:
\* a constructor given a config without baseURL, without endpoints or with
\* an endpoint without a non-empty path string throws, and get/post/...
\* given a name that is no endpoint of the config throws before any builder
\* exists.
C29_MisuseThrowsConfig ==
    /\ (client.status /= "none" /\ client.config.kind = "object" /\ Misconfigured(client.config))
          => (client.status = "threw" /\ client.thrown.kind = "CONFIG")
    /\ \A r \in Reqs :
          req[r].bst /= "none" => (req[r].endpoint \in ConfiguredNames /\ client.config.entries[req[r].endpoint] = "ok")
    /\ (client.status = "constructed" /\ client.asked \in EndpointNames \ ConfiguredNames)
          => client.thrown.kind = "CONFIG"

\* C30: with cache.enabled false at the request level, whatever the client,
\* endpoint and method levels say, a request that was sent has called the
\* transport, no step reads or writes the cache for it, and no step changes
\* the contents of the cache.
C30_Step ==
    levels[4].cache.enabled = 0 =>
        /\ cache' = cache
        /\ \A r \in FreshReqs :
              /\ ~req'[r].cacheGet /\ ~req'[r].cacheSet /\ ~req'[r].servedFromCache
              /\ req'[r].bst \notin {"none", "built"} => req'[r].tcalls >= 1

C30_RequestLevelDisablesCache == [][C30_Step]_vars

C30_Witness ==
    /\ levels[4].cache.enabled = 0
    /\ \E n \in 1..3 : levels[n].cache.enabled = 1
    /\ cache = StoredEarlier
    /\ \E r \in FreshReqs :
          /\ req[r].bst = "resolved" /\ req[r].key = 1
          /\ req[r].out.val = Val("d1") /\ req[r].tcalls = 1

\* requests a and b are the only ones sent: a missed the cache, got its
\* answer from the transport and stored it; b, with the same key, was then
\* served from the cache
MissThenHit(a, b) ==
    /\ a /= b /\ req[a].key = req[b].key
    /\ req[a].bst = "resolved" /\ ~req[a].servedFromCache /\ req[a].cacheSet /\ req[a].tcalls = 1
    /\ req[b].bst = "resolved" /\ req[b].servedFromCache
    /\ \A o \in Reqs \ {a, b} : req[o].bst \in {"none", "built"}

\* C31: for a client with cache enabled and no cache instance of the
\* caller's, after a first send() that misses and a second identical send()
\* served from the cache, getCacheStats() reports hits 1, misses 1, sets 1
\* and size 1.
C31_StatsAfterMissAndHit ==
    (levels[1].cache.instance = "unset" /\ \E a, b \in Reqs : MissThenHit(a, b))
        => /\ GetCacheStats.hits = 1 /\ GetCacheStats.misses = 1
           /\ GetCacheStats.sets = 1 /\ GetCacheStats.size = 1

StepOrder ==
    <<"requestInterceptor", "cacheLookup", "dispatch", "responseInterceptor", "validateStatus",
      "parseBody", "cacheStore", "responseMappers", "onSuccess">>

Rank(step) == CHOOSE i \in 1..Len(StepOrder) : StepOrder[i] = step

InOrder(steps) == \A i, j \in 1..Len(steps) : i < j => Rank(steps[i]) < Rank(steps[j])

\* C32: the steps of an attempt are taken in the order request interceptor,
\* cache lookup, dispatch, response interceptor, status validation, body
\* parsing, cache store, response mappers, onSuccess; a response whose
\* status is not valid is not parsed as the result, not stored in the
\* cache and not given to the response mappers, and the request fails.
C32_StepsInOrder ==
    \A r \in Reqs :
        LET q == req[r] IN
        /\ InOrder(q.steps)
        /\ (q.lastStatus /= 0 /\ ~ValidateStatus(q.cfg, q.lastStatus)) =>
              /\ \A i \in 1..Len(q.steps) :
                    q.steps[i] \notin {"parseBody", "cacheStore", "responseMappers", "onSuccess"}
              /\ ~q.cacheSet /\ q.okCalls = 0 /\ q.onSuccessN = 0
              /\ q.out.tag = "err"

C32_Witness ==
    /\ req[1].bst = "resolved" /\ req[1].steps = StepOrder
    /\ req[2].bst = "rejected" /\ req[2].lastStatus = 500
    /\ req[2].steps = <<"requestInterceptor", "cacheLookup", "dispatch", "responseInterceptor", "validateStatus">>

\* the registry holds no entry
RegistryEmpty == \A k \in Keys : registry[k].p = 0

\* C33: the sweep timer of the registry runs only while the registry holds
\* an entry.
C33_TimerOnlyWhileRegistered == sweepOn => ~RegistryEmpty

\* the refresh of a request settles
RefreshSettles(r) == req[r].prom = "settling" /\ req'[r].prom = "settled"

\* the entry for key k is older than the maximum age
Overdue(k) == registry[k].p /= 0 /\ now - registry[k].ts > MaxInflightAge

\* every request was sent and no refresh is pending: no refresh will start
NoRefreshToCome ==
    \A r \in FreshReqs : req[r].bst \notin {"none", "built", "swrGet"} /\ req[r].prom \notin {"pending", "settling"}

\* C34: every registry entry is removed in the end: when its refresh settles
\* the entry is gone; an entry older than the maximum age is removed by the
\* sweep though its refresh is pending; and once no refresh is pending and
\* none will start, the registry becomes empty and the timer stops.
C34_EntriesRemoved ==
    /\ [][\A r \in FreshReqs : RefreshSettles(r) => registry'[req[r].key].p = 0]_vars
    /\ \A k \in Keys : Overdue(k) ~> ~Overdue(k)
    /\ NoRefreshToCome ~> (RegistryEmpty /\ ~sweepOn)

C34_Witness ==
    /\ \E r \in FreshReqs : req[r].prom = "pending" /\ Running(req[r], "inflight")
    /\ RegistryEmpty /\ ~sweepOn /\ now > MaxInflightAge

\* the two requests differ in the value of a cache-relevant header
DifferInRelevantHeader(a, b) ==
    \E n \in KeyHeaderNames : ToLowerCase(n) \in RelevantHeaders /\ a.headers[n] /= b.headers[n]

\* C35: the cache key is a function of method, URL, relevant headers and
\* body: two requests that differ in the value of a content-type, accept or
\* authorization header, however its name is spelled, get different keys;
\* the same inputs give the same key, with no time in it when the URL can
\* be built.
C35_KeySeparatesHeaders ==
    LET a == lastOp.inputs[1]
        b == lastOp.inputs[2]
    IN (lastOp.keys[1] /= NoKey /\ lastOp.keys[2] /= NoKey) =>
          /\ DifferInRelevantHeader(a, b) => lastOp.keys[1] /= lastOp.keys[2]
          /\ (a = b /\ a.url /= "throws") => (lastOp.keys[1] = lastOp.keys[2] /\ lastOp.keys[1].kind = "key")

\* the object of the new configuration is the old one with the override's names laid over it
MergedKeyByKey(new, old, over) ==
    \A n \in DOMAIN old : new[n] = IF over[n] /= "unset" THEN over[n] ELSE old[n]

\* C36: retry(overrides) starts an attempt whose configuration is the one of
\* the attempt before with the overrides applied: headers, pathParams and
\* searchParams merged key by key with the override winning, any other
\* field that is named replaced, every field not named unchanged, the
\* counter one more than before; the configuration of the attempt before is
\* as it was.
C36_Call ==
    lastOp'.op = "retry" =>
        LET old == lastOp.retryConfig
            new == lastOp'.retryConfig
            over == lastOp'.overrides
        IN /\ MergedKeyByKey(new.headers, old.headers, over.headers)
           /\ MergedKeyByKey(new.pathParams, old.pathParams, over.pathParams)
           /\ MergedKeyByKey(new.searchParams, old.searchParams, over.searchParams)
           /\ new.timeout = IF over.timeout /= Unset THEN over.timeout ELSE old.timeout
           /\ new.maxRetries = IF over.maxRetries /= Unset THEN over.maxRetries ELSE old.maxRetries
           /\ new._retryCount = old._retryCount + 1
           /\ lastOp'.originalConfig = old

C36_RetryMergesOverrides == [][C36_Call]_vars

C36_Witness ==
    /\ lastOp.op = "retry" /\ lastOp.retryConfig._retryCount = 2
    /\ lastOp.originalConfig.headers = [n \in HeaderNames |-> IF n = "A" THEN "x" ELSE "unset"]
    /\ lastOp.overrides.headers = [n \in HeaderNames |-> IF n = "A" THEN "unset" ELSE "y"]
    /\ lastOp.retryConfig.headers = [n \in HeaderNames |-> IF n = "A" THEN "x" ELSE "y"]
    /\ lastOp.overrides.timeout = 5 /\ lastOp.overrides._retryCount = 0
    /\ lastOp.originalConfig.pathParams["id"] = "x" /\ lastOp.retryConfig.pathParams["id"] = "y"

CacheKeysOf(c) == {c[i].key : i \in 1..Len(c)}

\* the step is a call of set (the other calls write their own name, the clock moves the time)
IsSet == lastOp'.op = "set" /\ now' = now

\* C37: a SimpleCache never holds more than maxSize entries, whatever is
\* called on it; a set of a new key at capacity evicts exactly the entry
\* whose key was inserted first, and a set of a key that is present evicts
\* nothing.
C37_Step ==
    /\ Len(cache') <= client'.cacheInstance.maxSize
    /\ IsSet =>
          LET k == lastOp'.key
              has == k \in CacheKeysOf(cache)
              full == Len(cache) >= client.cacheInstance.maxSize
          IN /\ (~has /\ full) => /\ CacheKeysOf(cache') = (CacheKeysOf(cache) \ {cache[1].key}) \cup {k}
                                  /\ \A i \in 2..Len(cache) : cache'[i - 1] = cache[i]
             /\ has => /\ [i \in 1..Len(cache') |-> cache'[i].key] = [i \in 1..Len(cache) |-> cache[i].key]
                        /\ \A i \in 1..Len(cache) : cache[i].key /= k => cache'[i] = cache[i]
             /\ (~has /\ ~full) => SubSeq(cache', 1, Len(cache)) = cache
             /\ cache'[Len(cache')].key = k \/ has

C37_BoundedWithOldestEvicted == [][C37_Step]_vars

\* with room for two, a third key has pushed out the first of the two
C37_Witness ==
    /\ client.cacheInstance.maxSize = 2 /\ Len(cache) = 2
    /\ lastOp.op = "set" /\ lastOp.key = 3 /\ lastOp.evicted = {1}
    /\ cache[1].key = 2 /\ cache[2].key = 3 /\ cache[1].createdAt < cache[2].createdAt

\* send() has returned a value that came from the cache: a hit of the simple
\* strategy, or the stale value of the swr strategy
ReturnedCached(q) ==
    /\ q.bst = "resolved" /\ q.out.tag = "val"
    /\ q.servedFromCache \/ (q.stale.tag = "val" /\ q.stale.val /= Null /\ q.out = q.stale)

\* send() has returned the value of a response of the transport
ReturnedFresh(q) ==
    /\ q.bst = "resolved" /\ q.out.tag = "val" /\ q.out.val /= Null
    /\ ~ReturnedCached(q) /\ q.tcalls > 0

\* C38: a value served from the cache is the value the caller received for
\* the uncached response that was stored: the mapped response, under the
\* simple and the swr strategy alike.
C38_CachedValueIsMapped ==
    \A a, b \in FreshReqs :
        (ReturnedFresh(req[a]) /\ ReturnedCached(req[b]) /\ req[a].key = req[b].key)
            => req[b].out = req[a].out

\* the part that holds: under the simple strategy
C38_SimpleOnly ==
    (\A n \in 1..4 : levels[n].cache.strategy /= "swr") => C38_CachedValueIsMapped

C38_SimpleWitness ==
    /\ levels[1].cache.strategy = "simple" /\ levels[1].responseMapper = <<"tag">>
    /\ ReturnedFresh(req[1]) /\ ReturnedCached(req[2])

\* the request has completed and its response was stored
HasStored(q) == q.bst = "resolved" /\ q.cacheSet

\* the step in which request r looks its key up in the cache
LooksUp(r) == ~req[r].cacheGet /\ req'[r].cacheGet

\* the lookup found a value: the stale value of swr, the hit of the simple strategy
Found(q) == IF q.bst = "swrGet" THEN q.stale.tag = "val" /\ q.stale.val /= Null ELSE q.servedFromCache

\* C39: the key of a lookup is the key the response is stored under: once a
\* request has completed and stored its response, the lookup of a later
\* identical request finds the stored value, also when the request
\* interceptor changes the headers.
C39_Step ==
    \A a, b \in FreshReqs :
        (a /= b /\ HasStored(req[a]) /\ req[a].key = req[b].key /\ LooksUp(b)) => Found(req'[b])

C39_LookupFindsStored == [][C39_Step]_vars

\* the part that holds: the simple strategy, and an interceptor that leaves the key alone
C39_SameKeyOnly ==
    [][(\A n \in 1..4 : levels[n].cache.strategy /= "swr" \/ levels[n].requestInterceptor /= "setsAuthorization")
         => C39_Step]_vars

C39_SimpleWitness ==
    /\ levels[1].cache.strategy = "simple" /\ levels[1].requestInterceptor = "setsAuthorization"
    /\ HasStored(req[1]) /\ req[2].bst = "resolved" /\ req[2].servedFromCache

\* C40: while a refresh is registered the sweep timer runs, whatever
\* send(), the sweep and destroy() have done before.
C40_RegisteredImpliesTimer == ~RegistryEmpty => sweepOn

\* a refresh is registered and the timer runs although the refresh of an
\* earlier request, still in flight, has lost its entry
C40_Witness ==
    /\ ~RegistryEmpty /\ sweepOn
    /\ \E a, b \in FreshReqs :
          /\ a /= b /\ req[a].key = req[b].key /\ registry[req[b].key].p = b
          /\ req[a].mode = "refresh" /\ Running(req[a], "inflight")
          /\ req[b].mode = "refresh" /\ Running(req[b], "inflight")

(***************************************************************************)
(* Properties of cancellation.                                             *)
(***************************************************************************)
\* C15: a send() on a builder that was cancelled with a message before the
\* send() never resolves; when it settles it is rejected with an ABORT error
\* carrying the message of that cancel, on every transport path.
C15_CancelledBeforeSendRejectsAbort ==
    \A r \in Reqs :
        LET q == req[r] IN
        (Settled(q) /\ q.cancelLog /= <<>> /\ q.cancelLog[1].phase = "built")
            => /\ q.bst = "rejected"
               /\ q.out.err.kind = "ABORT"
               /\ q.out.err.msg = q.cancelLog[1].m

\* C16: after cancel(m1) and then cancel(m2) on a pending request, send()
\* rejects with an ABORT error whose message is m1.
C16_FirstCancelWins ==
    \A r \in Reqs :
        LET q == req[r] IN
        (Settled(q) /\ Len(q.cancelLog) = 2
                    /\ q.cancelLog[1].phase = "pending" /\ q.cancelLog[2].phase = "pending")
            => /\ q.bst = "rejected"
               /\ q.out.err.kind = "ABORT"
               /\ q.out.err.msg = q.cancelLog[1].m

(***************************************************************************)
(* Properties of the stale-while-revalidate strategy.                      *)
(***************************************************************************)
\* q went down the swr path and its cache lookup answered (did not throw)
SwrAnswered(q) == q.stale.tag = "val" /\ q.bst /= "swrGet"

\* C5: at every moment at most one swr refresh per request fingerprint is in
\* flight (an swr send() issued while a refresh for its fingerprint is pending
\* starts no further one), also after the sweep has run, after destroy() and
\* after earlier refreshes have settled.
C5_OneRefreshPerKey ==
    \A k \in Keys : Cardinality({r \in Reqs : InFlightRefresh(req[r], k)}) <= 1

\* C6: under swr with no cached value, send() awaits the refresh, and if the
\* refresh fails send() rejects with the error of the refresh.
C6_EmptyCacheRefreshFailureRejects ==
    \A r \in Reqs :
        LET q == req[r] IN
        (SwrAnswered(q) /\ q.stale.val = Null /\ Settled(q))
            => /\ q.awaiting /= 0
               /\ req[q.awaiting].execOut.tag = "err"
                    => (q.bst = "rejected" /\ q.out = req[q.awaiting].execOut)

\* C7: under swr with a cached value, send() resolves with the cached value
\* without waiting for the refresh; a failure of the refresh never reaches
\* that caller; onRevalidate is invoked only when the refresh succeeded, with
\* the fresh value.
C7_StaleServedRefreshSilent ==
    \A r \in Reqs :
        LET q == req[r] IN
        /\ (SwrAnswered(q) /\ q.stale.val /= Null)
              => (q.bst = "resolved" /\ q.out = ValRes(q.stale.val))
        /\ q.onRevalLog /= <<>> => (q.execOut.tag = "val" /\ q.onRevalLog = <<q.execOut.val>>)
        /\ q.execOut.tag = "err" => q.onRevalLog = <<>>

\* a caller that got the stale value and whose own refresh has failed behind it
C7_Witness ==
    \E r \in Reqs : /\ req[r].stale.val /= Null /\ req[r].bst = "resolved"
                    /\ req[r].out = ValRes(req[r].stale.val)
                    /\ req[r].prom = "settled" /\ req[r].execOut.tag = "err"

(***************************************************************************)
(* Properties of the simple cache strategy.                                *)
(***************************************************************************)
\* the ttl the configuration resolves to
ExpectedTtl == IF levels[1].cache.ttl = Unset THEN DefaultTtl ELSE levels[1].cache.ttl

\* C8: under the simple strategy a send() whose lookup returns a non-null
\* value resolves from the cache without calling the transport; a miss calls
\* the transport and stores the non-null parsed value under the same key with
\* the resolved ttl, so that a second identical send() within the ttl calls
\* the transport zero times.
C8_SimpleCacheHitAndStore ==
    /\ \A r \in Reqs :
          LET q == req[r] IN
          /\ q.servedFromCache => (q.tcalls = 0 /\ q.bst = "resolved" /\ q.out.tag = "val")
          /\ (Settled(q) /\ ~q.servedFromCache) => q.tcalls = 1
          /\ q.expectHit => (q.servedFromCache /\ q.tcalls = 0)
    /\ \A k \in Keys :
          now <= hist.stored[k].until
              => LET i == CacheIndex(cache, k, 1) IN
                 /\ i /= 0
                 /\ cache[i].data = hist.stored[k].val
                 /\ cache[i].expiry = cache[i].createdAt + ExpectedTtl

\* a miss that called the transport and stored, then a hit within the ttl
C8_Witness ==
    \E r, o \in Reqs :
        /\ req[r].bst = "resolved" /\ req[r].tcalls = 1 /\ ~req[r].servedFromCache
        /\ req[o].bst = "resolved" /\ req[o].tcalls = 0 /\ req[o].expectHit
        /\ req[o].out = req[r].out

(***************************************************************************)
(* Properties of SimpleCache.                                              *)
(***************************************************************************)
\* C9: SimpleCache never returns an expired entry: after set(k, v, ttl) at
\* time t, get(k) returns v at every time before t + ttl, and from t + ttl on
\* get(k) returns null and has(k) returns false.
C9_NeverReturnsExpired ==
    lastOp.op \in {"get", "has"} /\ hist.stored[lastOp.key] /= NotStored
        => LET s == hist.stored[lastOp.key] IN
           /\ (lastOp.op = "get" /\ lastOp.at < s.until) => lastOp.res = s.val
           /\ (lastOp.op = "get" /\ lastOp.at >= s.until) => lastOp.res = Null
           /\ (lastOp.op = "has" /\ lastOp.at >= s.until) => ~lastOp.found

====
